---- MODULE Spec2Model ----
(***************************************************************************)
(* Verification model of the nl2sql planning-and-validation pipeline:      *)
(*   - QueryValidator.validate_sql   (app/validators/query_validator.py)   *)
(*   - PlanValidator.validate_plan   (app/validators/plan_validator.py and *)
(*                                    the older app/plan_validator.py)     *)
(*   - IntelligentSQLGenerator._generate_with_validation_loop              *)
(*                                    (app/intelligent_sql_generator.py)   *)
(*                                                                         *)
(* SQL text is modelled as a sequence of tokens (words, literals and       *)
(* punctuation); whitespace between tokens is not represented.  Every      *)
(* regular expression of the validator is translated to the token          *)
(* sequences it matches, and str.lower() / str.upper() are translated      *)
(* token by token through an explicit case table.                          *)
(***************************************************************************)
EXTENDS Integers, Sequences, FiniteSets, TLC

(***************************************************************************)
(* Schema fixture: tables, columns, scoping metadata and relationships, in *)
(* the shape SchemaGraph loads them.                                       *)
(***************************************************************************)
SCOPING_COLUMN == "accounts_entity_id"

TableOrder == <<"shipments", "orders", "customers", "invoices", "updates">>

SchemaTables == {TableOrder[i] : i \in 1..Len(TableOrder)}

TableInfo ==
  [t \in SchemaTables |->
    CASE t = "shipments" ->
           [columns |-> <<"id", "status", "created_at", "accounts_entity_id", "order_id">>,
            scoped |-> TRUE, scoping_column |-> "accounts_entity_id"]
      [] t = "orders" ->
           [columns |-> <<"id", "customer_id", "total", "accounts_entity_id", "created_at">>,
            scoped |-> TRUE, scoping_column |-> "accounts_entity_id"]
      [] t = "customers" ->
           [columns |-> <<"id", "name", "email">>,
            scoped |-> FALSE, scoping_column |-> "accounts_entity_id"]
      [] t = "invoices" ->
           [columns |-> <<"id", "order_id", "amount", "billing_entity_id">>,
            scoped |-> TRUE, scoping_column |-> "billing_entity_id"]
      [] OTHER ->
           [columns |-> <<"id", "note">>,
            scoped |-> FALSE, scoping_column |-> "accounts_entity_id"]]

Relationships ==
  << [from |-> "shipments", to |-> "orders",    on |-> "order_id",    to_column |-> "id"],
     [from |-> "orders",    to |-> "customers", on |-> "customer_id", to_column |-> "id"],
     [from |-> "invoices",  to |-> "orders",    on |-> "order_id",    to_column |-> "id"] >>

Range(s) == {s[i] : i \in 1..Len(s)}

TableColumns(t) == IF t \in SchemaTables THEN Range(TableInfo[t].columns) ELSE {}

\* settings.get_scoped_tables(schema_graph): table -> scoping column, scoped tables only
ScopedTables == {t \in SchemaTables : TableInfo[t].scoped}

ScopingColumnOf(t) == TableInfo[t].scoping_column

(***************************************************************************)
(* Token vocabulary and case conversion.  Each row is                      *)
(* <<token, token.lower(), token.upper()>>.                                *)
(***************************************************************************)
CaseTable ==
  { <<"SELECT", "select", "SELECT">>, <<"select", "select", "SELECT">>,
    <<"FROM", "from", "FROM">>,       <<"from", "from", "FROM">>,
    <<"JOIN", "join", "JOIN">>,       <<"join", "join", "JOIN">>,
    <<"WHERE", "where", "WHERE">>,    <<"where", "where", "WHERE">>,
    <<"AND", "and", "AND">>,          <<"and", "and", "AND">>,
    <<"IN", "in", "IN">>,             <<"in", "in", "IN">>,
    <<"LIMIT", "limit", "LIMIT">>,    <<"limit", "limit", "LIMIT">>,
    <<"DROP", "drop", "DROP">>,       <<"drop", "drop", "DROP">>,
    <<"TABLE", "table", "TABLE">>,    <<"table", "table", "TABLE">>,
    <<"DELETE", "delete", "DELETE">>, <<"delete", "delete", "DELETE">>,
    <<"UPDATE", "update", "UPDATE">>, <<"update", "update", "UPDATE">>,
    <<"COUNT(*)", "count(*)", "COUNT(*)">>, <<"count(*)", "count(*)", "COUNT(*)">>,
    <<"*", "*", "*">>, <<"=", "=", "=">>, <<"(", "(", "(">>, <<")", ")", ")">>,
    <<";", ";", ";">>, <<"1", "1", "1">>, <<"10", "10", "10">>,
    <<"?", "?", "?">>, <<"%s", "%s", "%S">>, <<"%S", "%s", "%S">>,
    <<"shipments", "shipments", "SHIPMENTS">>, <<"SHIPMENTS", "shipments", "SHIPMENTS">>,
    <<"orders", "orders", "ORDERS">>,          <<"ORDERS", "orders", "ORDERS">>,
    <<"customers", "customers", "CUSTOMERS">>, <<"CUSTOMERS", "customers", "CUSTOMERS">>,
    <<"invoices", "invoices", "INVOICES">>,    <<"INVOICES", "invoices", "INVOICES">>,
    <<"updates", "updates", "UPDATES">>,       <<"UPDATES", "updates", "UPDATES">>,
    <<"accounts_entity_id", "accounts_entity_id", "ACCOUNTS_ENTITY_ID">>,
    <<"ACCOUNTS_ENTITY_ID", "accounts_entity_id", "ACCOUNTS_ENTITY_ID">>,
    <<"billing_entity_id", "billing_entity_id", "BILLING_ENTITY_ID">>,
    <<"BILLING_ENTITY_ID", "billing_entity_id", "BILLING_ENTITY_ID">>,
    <<"status", "status", "STATUS">>, <<"STATUS", "status", "STATUS">>,
    <<"'E100'", "'e100'", "'E100'">>, <<"'e100'", "'e100'", "'E100'">>,
    <<"'7'", "'7'", "'7'">>, <<"'71'", "'71'", "'71'">>,
    <<"('7', '8')", "('7', '8')", "('7', '8')">>,
    <<"('E100', '8')", "('e100', '8')", "('E100', '8')">>,
    <<"('e100', '8')", "('e100', '8')", "('E100', '8')">>,
    <<"--x", "--x", "--X">>, <<"--X", "--x", "--X">>,
    <<"/*x*/", "/*x*/", "/*X*/">>, <<"/*X*/", "/*x*/", "/*X*/">> }

Vocab == {r[1] : r \in CaseTable}

LowerMap == [t \in Vocab |-> (CHOOSE r \in CaseTable : r[1] = t)[2]]

UpperMap == [t \in Vocab |-> (CHOOSE r \in CaseTable : r[1] = t)[3]]

\* str.lower() / str.upper() of a token sequence
Lower(s) == [i \in 1..Len(s) |-> LowerMap[s[i]]]

Upper(s) == [i \in 1..Len(s) |-> UpperMap[s[i]]]

\* tokens matched by the character class [`\w\.]+ (identifiers and keywords)
WordTokens ==
  {t \in Vocab : LowerMap[t] \in
     {"select", "from", "join", "where", "and", "in", "limit", "drop", "table",
      "delete", "update", "shipments", "orders", "customers", "invoices", "updates",
      "accounts_entity_id", "billing_entity_id", "status", "1", "10"}}

\* tokens whose first character is a letter ([A-Za-z])
LetterTokens == {t \in WordTokens : LowerMap[t] \notin {"1", "10"}}

\* f"'{scoping_value}'"
Quote(v) == IF v = "E100" THEN "'E100'" ELSE "'7'"

\* tokens that the regex fragment ['\"]?{scoping_value}['\"]? matches at their
\* start: an optional quote followed by the value's exact characters
ValuePrefixTokens(v) == IF v = "E100" THEN {"'E100'"} ELSE {"'7'", "'71'"}

\* "', '".join(accessible_entities), wrapped as the IN-list literal
InListToken(ents) == IF ents[1] = "E100" THEN "('E100', '8')" ELSE "('7', '8')"

(***************************************************************************)
(* Sequence helpers used by the translated regular expressions.            *)
(***************************************************************************)
Min(S) == CHOOSE x \in S : \A y \in S : x <= y

\* str.rstrip(';')
RECURSIVE RStripSemi(_)
RStripSemi(s) ==
  IF Len(s) > 0 /\ s[Len(s)] = ";" THEN RStripSemi(SubSeq(s, 1, Len(s) - 1)) ELSE s

\* " AND ".join(parts)
RECURSIVE JoinAnd(_)
JoinAnd(parts) ==
  IF Len(parts) = 0 THEN <<>>
  ELSE IF Len(parts) = 1 THEN parts[1]
  ELSE parts[1] \o <<"AND">> \o JoinAnd(Tail(parts))

NoSql == <<"<none>">>

None == "None"

(***************************************************************************)
(* QueryValidator                                                          *)
(***************************************************************************)
Invalid(err) ==
  [valid |-> FALSE, error |-> err, modified_sql |-> NoSql, tables |-> {},
   scoping_applied |-> FALSE, ast_used |-> FALSE]

\* sqlparse.parse(sql)[0]: the text up to and including the first top-level ';'
FirstStatement(sql) ==
  LET semis == {i \in 1..Len(sql) : sql[i] = ";"}
  IN  IF semis = {} THEN sql ELSE SubSeq(sql, 1, Min(semis))

\* permission_manager.get_scoping_requirements, and the legacy fallback of
\* validate_sql when no user context is given
ScopingRequirements(ctx, val) ==
  CASE ctx = "none" ->
         [scoping_required |-> TRUE, scoping_column |-> SCOPING_COLUMN,
          accessible_entities |-> <<val>>]
    [] ctx = "customer" ->
         [scoping_required |-> TRUE, scoping_column |-> SCOPING_COLUMN,
          accessible_entities |-> <<val>>]
    [] ctx = "multi" ->
         [scoping_required |-> TRUE, scoping_column |-> SCOPING_COLUMN,
          accessible_entities |-> <<val, "8">>]
    [] OTHER ->
         [scoping_required |-> FALSE, scoping_column |-> None,
          accessible_entities |-> <<>>]

\* _extract_tables: the identifier after FROM / JOIN / UPDATE / INTO, lower-cased,
\* without the aggregate-like names
ExtractTables(stmt) ==
  LET up == Upper(stmt)
      low == Lower(stmt)
  IN  {low[i + 1] : i \in {j \in 1..(Len(stmt) - 1) :
                              /\ up[j] \in {"FROM", "JOIN", "UPDATE", "INTO"}
                              /\ stmt[j + 1] \in WordTokens}}
        \ {"id", "count", "sum", "avg", "min", "max"}

\* [table for table in used_tables if table in self.scoped_tables]; used_tables is
\* a set, so the list order is either enumeration order (rev chooses)
ScopedList(used, rev) ==
  LET fwd == SelectSeq(TableOrder, LAMBDA t : t \in used /\ t \in ScopedTables)
  IN  IF rev THEN [i \in 1..Len(fwd) |-> fwd[Len(fwd) + 1 - i]] ELSE fwd

\* one table's patterns of _check_scoping_filter_exists_with_context, searched in
\* str(statement).lower()
ScopingPatternFound(low, col, val, ents) ==
  \/ \E i \in 1..(Len(low) - 2) :
       /\ low[i] = col
       /\ low[i + 1] = "="
       /\ \/ low[i + 2] \in ValuePrefixTokens(val)
          \/ low[i + 2] = "%s"
          \/ low[i + 2] = "?"
  \/ /\ Len(ents) > 1
     /\ \E i \in 1..(Len(low) - 2) :
          /\ low[i] = col
          /\ low[i + 1] = "IN"
          /\ low[i + 2] = InListToken(ents)

\* _check_scoping_filter_exists_with_context: True as soon as one scoped table's
\* pattern is found
CheckScopingFilterExistsWithContext(stmt, scoped, val, ents) ==
  \E k \in 1..Len(scoped) :
     ScopingPatternFound(Lower(stmt), ScopingColumnOf(scoped[k]), val, ents)

FilterConditions(scoped, val, ents) ==
  [k \in 1..Len(scoped) |->
     IF Len(ents) > 1
       THEN <<ScopingColumnOf(scoped[k]), "IN", InListToken(ents)>>
       ELSE <<ScopingColumnOf(scoped[k]), "=", Quote(val)>>]

ClauseKeywords == {"ORDER BY", "GROUP BY", "LIMIT", "OFFSET"}

\* _append_scoping_filter_with_context
AppendScopingFilterWithContext(stmt, scoped, val, ents) ==
  LET filter == JoinAnd(FilterConditions(scoped, val, ents))
      up == Upper(stmt)
      wheres == {i \in 1..Len(stmt) : up[i] = "WHERE"}
      froms == {i \in 1..Len(stmt) :
                  /\ up[i] = "FROM"
                  /\ \E j \in (i + 1)..Len(stmt) : up[j] \in ClauseKeywords}
  IN  IF wheres # {}
        THEN LET w == Min(wheres)
             IN  SubSeq(stmt, 1, w) \o <<"AND", "(">> \o filter \o <<")">>
                   \o SubSeq(stmt, w + 1, Len(stmt))
      ELSE IF froms # {}
        THEN LET f == Min(froms)
                 c == Min({j \in (f + 1)..Len(stmt) : up[j] \in ClauseKeywords})
             IN  SubSeq(stmt, 1, c - 1) \o <<"WHERE">> \o filter
                   \o SubSeq(stmt, c, Len(stmt))
      ELSE RStripSemi(stmt) \o <<"WHERE">> \o filter \o <<";">>

\* _validate_scoping_filtering_with_context; modified_sql = NoSql stands for a
\* result without the "modified_sql" key
ValidateScopingFilteringWithContext(stmt, scoped, val, ents, auto) ==
  IF Len(scoped) = 0
    THEN [valid |-> TRUE, error |-> None, modified_sql |-> NoSql, scoping_applied |-> FALSE]
  ELSE IF CheckScopingFilterExistsWithContext(stmt, scoped, val, ents)
    THEN [valid |-> TRUE, error |-> None, modified_sql |-> NoSql, scoping_applied |-> TRUE]
  ELSE IF ~auto
    THEN [valid |-> FALSE, error |-> "scoping filter missing", modified_sql |-> NoSql,
          scoping_applied |-> FALSE]
  ELSE [valid |-> TRUE, error |-> None,
        modified_sql |-> AppendScopingFilterWithContext(stmt, scoped, val, ents),
        scoping_applied |-> TRUE]

DangerousKeywords == {"DROP", "DELETE", "TRUNCATE", "ALTER", "CREATE", "INSERT", "UPDATE"}

\* _perform_safety_checks: None when every check passes, else the error
PerformSafetyChecks(stmt) ==
  LET up == Upper(stmt)
  IN  IF \E i \in 1..Len(up) : up[i] \in DangerousKeywords
        THEN "operation not allowed"
      ELSE IF \E i \in 1..(Len(up) - 1) : up[i] = ";" /\ stmt[i + 1] \in LetterTokens
        THEN "multiple statements"
      ELSE IF \E i \in 1..Len(up) : up[i] = "--X"
        THEN "sql comments"
      ELSE IF \E i \in 1..Len(up) : up[i] = "/*X*/"
        THEN "block comments"
      ELSE None

AllowedOperations == {"SELECT"}

\* _perform_custom_validation with the default rules ({}: no max_tables, only
\* SELECT allowed); no relationship of the fixture has a non-id target column, so
\* the join-column check never reports
PerformCustomValidation(stmt) ==
  LET up == Upper(stmt)
  IN  IF \E i \in 1..Len(up) :
            /\ up[i] \in {"SELECT", "INSERT", "UPDATE", "DELETE", "DROP", "CREATE", "ALTER"}
            /\ up[i] \notin AllowedOperations
        THEN "operation not in allow-list"
      ELSE None

ColumnTokens == {"accounts_entity_id", "billing_entity_id", "status"}

\* _ast_validate, when sqlglot is importable and parses the text: sqlglot.parse_one
\* yields the first statement; None stands for "fell back silently"
AstValidate(sql, val, ctx) ==
  LET stmt == RStripSemi(FirstStatement(sql))
      low == Lower(stmt)
      used == ExtractTables(stmt)
      cols == {low[i] : i \in {j \in 1..Len(low) : low[j] \in ColumnTokens}}
      req == ScopingRequirements(ctx, val)
      missing == {t \in used \cap ScopedTables :
                    ~ \E i \in 1..(Len(low) - 2) :
                        /\ low[i] = ScopingColumnOf(t)
                        /\ low[i + 1] = "="
                        /\ low[i + 2] \in ValuePrefixTokens(val)}
  IN  IF \E c \in cols : \A t \in used : c \notin TableColumns(t)
        THEN "column not found in used tables"
      ELSE IF req.scoping_required /\ missing # {}
        THEN "missing scoping filter on alias"
      ELSE None

\* validate_sql.  ast: whether the AST tier ran (sqlglot importable and the text
\* parsed); rev: iteration order of the used-tables set; auto: ENABLE_AUTO_SCOPING
ValidateSql(sql, val, ctx, auto, ast, rev) ==
  LET astErr == IF ast /\ Len(sql) > 0 THEN AstValidate(sql, val, ctx) ELSE None
      stmt == FirstStatement(sql)
      used == ExtractTables(stmt)
      scoped == ScopedList(used, rev)
      req == ScopingRequirements(ctx, val)
      scoping ==
        IF req.scoping_required /\ Len(scoped) > 0
          THEN ValidateScopingFilteringWithContext(stmt, scoped, val,
                                                   req.accessible_entities, auto)
          ELSE [valid |-> TRUE, error |-> None, modified_sql |-> NoSql,
                scoping_applied |-> FALSE]
      safety == PerformSafetyChecks(stmt)
      custom == PerformCustomValidation(stmt)
  IN  IF astErr # None THEN [Invalid(astErr) EXCEPT !.ast_used = TRUE]
      ELSE IF Len(sql) = 0 THEN Invalid("invalid sql syntax")
      ELSE IF ~scoping.valid THEN Invalid(scoping.error)
      ELSE IF safety # None THEN Invalid(safety)
      ELSE IF custom # None THEN Invalid(custom)
      ELSE [valid |-> TRUE, error |-> None,
            modified_sql |-> IF scoping.modified_sql = NoSql THEN sql
                             ELSE scoping.modified_sql,
            tables |-> used,
            scoping_applied |-> scoping.scoping_applied,
            ast_used |-> ast /\ Len(sql) > 0]

(***************************************************************************)
(* SchemaGraph path finding (networkx DiGraph over the relationships)      *)
(***************************************************************************)
GraphNodes ==
  SchemaTables \cup {Relationships[i].from : i \in 1..Len(Relationships)}
               \cup {Relationships[i].to : i \in 1..Len(Relationships)}

Edge(a, b) == \E i \in 1..Len(Relationships) :
                 Relationships[i].from = a /\ Relationships[i].to = b

\* the simple directed paths that start at a and have at most n edges
RECURSIVE PathsFrom(_, _)
PathsFrom(a, n) ==
  IF n = 0 THEN {<<a>>}
  ELSE LET shorter == PathsFrom(a, n - 1)
           longer == {Append(q, b) : q \in shorter, b \in GraphNodes}
       IN  shorter \cup
             {q \in longer : /\ Edge(q[Len(q) - 1], q[Len(q)])
                             /\ \A i \in 1..(Len(q) - 1) : q[i] # q[Len(q)]}

NodeNotFound == <<"<NodeNotFound>">>

NoPath == <<>>

\* find_path_between_tables: nx.shortest_path raises NodeNotFound for a node that
\* is not in the graph (not caught here) and NetworkXNoPath (-> None) otherwise
FindPathBetweenTables(a, b) ==
  IF a \notin GraphNodes \/ b \notin GraphNodes THEN NodeNotFound
  ELSE LET found == {q \in PathsFrom(a, Cardinality(GraphNodes) - 1) : q[Len(q)] = b}
       IN  IF found = {} THEN NoPath
           ELSE CHOOSE q \in found : \A r \in found : Len(q) <= Len(r)

\* next(r for r in relationships if r['from'] == a and r['to'] == b)
FirstRelationship(a, b) ==
  Relationships[Min({i \in 1..Len(Relationships) :
                       Relationships[i].from = a /\ Relationships[i].to = b})]

\* the join steps of get_join_path along one path: for each consecutive pair the
\* first relationship from -> to (the inner `for rel ... break`)
RECURSIVE PathJoins(_, _)
PathJoins(path, i) ==
  IF i >= Len(path) THEN <<>>
  ELSE (IF Edge(path[i], path[i + 1])
          THEN LET rel == FirstRelationship(path[i], path[i + 1])
               IN  <<[from_table |-> path[i], to_table |-> path[i + 1],
                      join_column |-> rel.on, to_column |-> rel.to_column]>>
        ELSE <<>>)
       \o PathJoins(path, i + 1)

\* the loop of get_join_path from tables[k] on.  The sources are visited in the
\* order the set connected_tables enumerates them and a path replaces the best one
\* only when it is strictly shorter, so any shortest candidate can be the best
\* path.  NodeNotFound of nx.shortest_path is not caught.  The result is the set
\* of possible outcomes [exc, joins].
RECURSIVE JoinPathFrom(_, _, _, _)
JoinPathFrom(tables, k, joins, connected_tables) ==
  IF k > Len(tables) THEN {[exc |-> FALSE, joins |-> joins]}
  ELSE IF tables[k] \notin GraphNodes \/ ~(connected_tables \subseteq GraphNodes)
    THEN {[exc |-> TRUE, joins |-> <<>>]}
  ELSE LET paths == {FindPathBetweenTables(c, tables[k]) : c \in connected_tables}
                      \ {NoPath}
           best == {q \in paths : \A r \in paths : Len(q) <= Len(r)}
       IN  IF paths = {} THEN JoinPathFrom(tables, k + 1, joins, connected_tables)
           ELSE UNION {JoinPathFrom(tables, k + 1, joins \o PathJoins(best_path, 1),
                                    connected_tables \cup {tables[k]})
                       : best_path \in best}

\* SchemaGraph.get_join_path(tables)
GetJoinPath(tables) ==
  IF Len(tables) <= 1 THEN {[exc |-> FALSE, joins |-> <<>>]}
  ELSE JoinPathFrom(tables, 2, <<>>, {tables[1]})

(***************************************************************************)
(* PlanValidator                                                           *)
(***************************************************************************)
required_fields ==
  <<"tables", "columns", "joins", "filters", "group_by", "order_by", "limit",
    "needs_scoping">>

NonePlan == [none |-> TRUE]

PlanInvalid(err, missing) ==
  [valid |-> FALSE, error |-> err, missing_fields |-> missing, repaired_plan |-> NonePlan]

\* a required-field check that overlooks the last field of the list
MissingFieldsButLast(plan) ==
  SelectSeq(SubSeq(required_fields, 1, Len(required_fields) - 1),
            LAMBDA f : f \notin DOMAIN plan)

\* missing_fields = [field for field in required_fields if field not in plan]
MissingFields(plan) == SelectSeq(required_fields, LAMBDA f : f \notin DOMAIN plan)

JoinPairs(joins) == {<<joins[i].from_table, joins[i].to_table>> : i \in 1..Len(joins)}

\* list(dict.fromkeys(items)): first occurrences, in order
RECURSIVE Dedup(_)
Dedup(items) ==
  IF Len(items) = 0 THEN <<>>
  ELSE LET front == Dedup(SubSeq(items, 1, Len(items) - 1))
           last == items[Len(items)]
       IN  IF last \in Range(front) THEN front ELSE Append(front, last)

\* the inner loop of _synthesize_join_bridges over one path
RECURSIVE WalkPath(_, _, _, _)
WalkPath(path, i, joins, connected) ==
  IF i >= Len(path) THEN [joins |-> joins, connected |-> connected]
  ELSE LET a == path[i]
           b == path[i + 1]
       IN  IF <<a, b>> \in JoinPairs(joins)
             THEN WalkPath(path, i + 1, joins, connected \cup {b})
           ELSE IF ~Edge(a, b)
             THEN WalkPath(path, i + 1, joins, connected)
           ELSE LET rel == FirstRelationship(a, b)
                    join == [from_table |-> a, to_table |-> b, from_column |-> rel.on,
                             to_column |-> rel.to_column, type |-> "INNER"]
                IN  WalkPath(path, i + 1, Append(joins, join), connected \cup {b})

\* the outer loop of _synthesize_join_bridges from tables[k] on; the source
\* list(connected)[-1] is whichever element the set enumerates last.  The result
\* is the set of possible outcomes [exc, joins].
RECURSIVE BridgeFrom(_, _, _, _)
BridgeFrom(tables, k, joins, connected) ==
  IF k > Len(tables) THEN {[exc |-> FALSE, joins |-> joins]}
  ELSE IF tables[k] \in connected THEN BridgeFrom(tables, k + 1, joins, connected)
  ELSE UNION {
         LET path == FindPathBetweenTables(src, tables[k])
         IN  IF path = NodeNotFound THEN {[exc |-> TRUE, joins |-> joins]}
             ELSE IF path = NoPath THEN BridgeFrom(tables, k + 1, joins, connected)
             ELSE LET w == WalkPath(path, 1, joins, connected)
                  IN  BridgeFrom(tables, k + 1, w.joins, w.connected)
         : src \in connected }

\* implied_tables: every join endpoint that is not in tables, in join order
RECURSIVE ImpliedTables(_, _)
ImpliedTables(joins, tables) ==
  IF Len(joins) = 0 THEN <<>>
  ELSE LET j == joins[1]
       IN  (IF j.from_table \notin Range(tables) THEN <<j.from_table>> ELSE <<>>)
             \o (IF j.to_table \notin Range(tables) THEN <<j.to_table>> ELSE <<>>)
             \o ImpliedTables(Tail(joins), tables)

\* _synthesize_join_bridges: the set of plans it can return.  On an exception the
\* plan is returned as it is; joins appended so far stay in a non-empty plan["joins"]
\* list, which is mutated in place.
SynthesizeJoinBridges(plan) ==
  IF Len(plan.tables) < 2 THEN {plan}
  ELSE {IF o.exc
          THEN [plan EXCEPT !.joins = IF Len(plan.joins) > 0 THEN o.joins ELSE plan.joins]
          ELSE LET implied == ImpliedTables(o.joins, plan.tables)
               IN  [plan EXCEPT
                      !.tables = IF Len(implied) > 0 THEN Dedup(plan.tables \o implied)
                                 ELSE plan.tables,
                      !.joins = o.joins]
        : o \in BridgeFrom(plan.tables, 2, plan.joins, {plan.tables[1]})}

\* _validate_columns
ValidateColumns(columns, tables) ==
  [t \in Range(tables) \cap SchemaTables |->
     SelectSeq(IF t \in DOMAIN columns THEN columns[t] ELSE <<>>,
               LAMBDA c : c \in TableColumns(t))]

\* a join repair that keeps every join between two selected tables as the LLM
\* wrote it, without consulting the declared relationships
ValidateJoinsAsProposed(joins, tables) ==
  LET kept == SelectSeq(joins, LAMBDA j :
                 j.from_table \in Range(tables) /\ j.to_table \in Range(tables))
  IN  [i \in 1..Len(kept) |->
         [from_table |-> kept[i].from_table, to_table |-> kept[i].to_table,
          from_column |-> kept[i].from_column, to_column |-> kept[i].to_column,
          type |-> kept[i].type]]

\* _validate_joins
ValidateJoins(joins, tables) ==
  LET kept == SelectSeq(joins, LAMBDA j :
                 /\ j.from_table \in Range(tables)
                 /\ j.to_table \in Range(tables)
                 /\ Edge(j.from_table, j.to_table))
  IN  [i \in 1..Len(kept) |->
         LET rel == Relationships[
                      CHOOSE n \in 1..Len(Relationships) :
                        /\ Relationships[n].from = kept[i].from_table
                        /\ Relationships[n].to = kept[i].to_table
                        /\ \A m \in 1..Len(Relationships) :
                             (Relationships[m].from = kept[i].from_table
                                /\ Relationships[m].to = kept[i].to_table) => m <= n]
         IN  [from_table |-> kept[i].from_table, to_table |-> kept[i].to_table,
              from_column |-> rel.on, to_column |-> rel.to_column,
              type |-> kept[i].type]]

\* _validate_scoping
ValidateScoping(tables) == \E t \in Range(tables) \cap SchemaTables : TableInfo[t].scoped

\* the keywords of the intent lists that occur in the query as substrings
\* (user_query.lower(), `word in query_lower`)
QueryWords(q) ==
  CASE q = "how many shipments are delivered" -> {"how many"}
    [] q = "how many shipments today" -> {"how many", "today", "day"}
    [] q = "list shipments" -> {"list"}
    [] q = "show orders created this week" -> {"show", "week"}
    [] q = "shipments delivered yesterday" -> {"yesterday", "day"}
    [] q = "list customers by country" -> {"list", "count"}
    [] OTHER -> {}

CountWords == {"how many", "count", "number of", "total"}

ListWords == {"list", "show", "get", "find"}

TimeWords == {"today", "yesterday", "week", "month", "day"}

\* columns whose name contains 'name' / 'title'
DisplayColumns(t) ==
  SelectSeq(IF t \in SchemaTables THEN TableInfo[t].columns ELSE <<>>,
            LAMBDA c : c \in {"name"})

\* columns whose name contains 'date' / 'created'
TimeColumns(t) ==
  SelectSeq(IF t \in SchemaTables THEN TableInfo[t].columns ELSE <<>>,
            LAMBDA c : c \in {"created_at"})

Head2(s) == SubSeq(s, 1, IF Len(s) < 2 THEN Len(s) ELSE 2)

ColsOf(columns, t) == IF t \in DOMAIN columns THEN columns[t] ELSE <<>>

\* _ensure_display_columns (no table of the fixture is named 'users')
EnsureDisplayColumns(plan) ==
  [plan EXCEPT !.columns =
     [t \in DOMAIN plan.columns \cup Range(plan.tables) |->
        IF t \notin Range(plan.tables) THEN plan.columns[t]
        ELSE IF Len(ColsOf(plan.columns, t)) = 0
          THEN Head2(DisplayColumns(t))
        ELSE plan.columns[t]]]

\* _ensure_time_columns
EnsureTimeColumns(plan) ==
  [plan EXCEPT !.columns =
     [t \in DOMAIN plan.columns \cup Range(plan.tables) |->
        IF t \notin Range(plan.tables) THEN plan.columns[t]
        ELSE IF Range(ColsOf(plan.columns, t)) \cap Range(TimeColumns(t)) = {}
                /\ Len(TimeColumns(t)) > 0
          THEN Append(ColsOf(plan.columns, t), TimeColumns(t)[1])
        ELSE ColsOf(plan.columns, t)]]

NullLimit == "None"

EmptyColumns == [t \in {} |-> <<>>]

\* _apply_intent_repairs of app/validators/plan_validator.py
ApplyIntentRepairs(plan, user_query) ==
  LET words == QueryWords(user_query)
      is_count_intent == words \cap CountWords # {}
      p1 == IF is_count_intent
              THEN [plan EXCEPT !.columns = EmptyColumns, !.group_by = <<>>,
                                !.limit = NullLimit]
            ELSE IF words \cap ListWords # {} THEN EnsureDisplayColumns(plan)
            ELSE plan
  IN  IF words \cap TimeWords # {} /\ ~is_count_intent THEN EnsureTimeColumns(p1) ELSE p1

\* _apply_intent_repairs of app/plan_validator.py
ApplyIntentRepairsLegacy(plan, user_query) ==
  LET words == QueryWords(user_query)
      p1 == IF words \cap CountWords # {}
              THEN [plan EXCEPT !.columns = EmptyColumns, !.group_by = <<>>,
                                !.limit = NullLimit]
            ELSE IF words \cap ListWords # {} THEN EnsureDisplayColumns(plan)
            ELSE plan
  IN  IF words \cap TimeWords # {} THEN EnsureTimeColumns(p1) ELSE p1

RECURSIVE SeqsUpTo(_, _)
SeqsUpTo(S, n) ==
  IF n = 0 THEN {<<>>}
  ELSE LET shorter == SeqsUpTo(S, n - 1)
       IN  shorter \cup {Append(q, x) : q \in {r \in shorter : Len(r) = n - 1}, x \in S}

\* list(a_set): the elements in whichever order the set enumerates them
Orderings(S) == {q \in SeqsUpTo(S, Cardinality(S)) : Range(q) = S}

\* validate_plan after the required-field check, for one bridged plan: the set of
\* results it can return
RepairPlan(plan, user_query, legacy) ==
  LET plan_tables == Range(plan.tables)
      invalid_tables == plan_tables \ SchemaTables
      repaired(tables) ==
        [plan EXCEPT !.tables = tables,
                     !.columns = ValidateColumns(plan.columns, tables),
                     !.joins = ValidateJoins(plan.joins, tables),
                     !.needs_scoping = ValidateScoping(tables)]
  IN  IF invalid_tables # {} /\ plan_tables \cap SchemaTables = {}
        THEN {PlanInvalid("no valid tables", <<>>)}
      ELSE {[valid |-> TRUE, error |-> None, missing_fields |-> <<>>,
             repaired_plan |->
               IF legacy THEN ApplyIntentRepairsLegacy(repaired(tables), user_query)
               ELSE ApplyIntentRepairs(repaired(tables), user_query)]
            : tables \in IF invalid_tables # {}
                           THEN Orderings(plan_tables \cap SchemaTables)
                           ELSE {plan.tables}}

\* validate_plan: the set of results it can return for the raw LLM text.
\* raw.parsed is whether json.loads accepted the (extracted) text; legacy selects
\* app/plan_validator.py, which has no bridge synthesis.
ValidatePlan(raw, user_query, legacy) ==
  IF ~raw.parsed THEN {PlanInvalid("invalid json plan format", <<>>)}
  ELSE IF Len(MissingFields(raw.plan)) > 0
    THEN {PlanInvalid("missing required fields", MissingFields(raw.plan))}
  ELSE UNION {RepairPlan(bridged, user_query, legacy) :
                bridged \in IF legacy THEN {raw.plan} ELSE SynthesizeJoinBridges(raw.plan)}

(***************************************************************************)
(* State.  v_*: one validate_sql call and its re-validation.               *)
(***************************************************************************)
VARIABLES v_phase, v_sql, v_scoping_value, v_ctx, v_auto, v_ast, v_result, v_result2,
          p_phase, p_raw, p_user_query, p_legacy, p_result,
          g_pc, g_attempt, g_calls, g_sql, g_validation_result, g_current_tables,
          g_result, g_user_query, g_db_feedback, g_schema_context, g_relevant_tables,
          h_pc, h_pending, h_relevant_tables, h_schema_desc, h_validation_result,
          h_plan_json, h_sql,
          j_phase, j_tables, j_result,
          s_index_built, s_tfidf, s_table_names, s_table_docs, s_history,
          b_cb, b_now, b_req, b_log,
          c_cache, c_clock, c_last,
          r_requests, r_now, r_admitted, r_last

sqlVars == <<v_phase, v_sql, v_scoping_value, v_ctx, v_auto, v_ast, v_result, v_result2>>

planVars == <<p_phase, p_raw, p_user_query, p_legacy, p_result>>

\* the locals of one LLMHandler.generate_sql call
handlerVars ==
  <<h_pc, h_pending, h_relevant_tables, h_schema_desc, h_validation_result, h_plan_json,
    h_sql>>

loopVars ==
  <<g_pc, g_attempt, g_calls, g_sql, g_validation_result, g_current_tables, g_result,
    g_user_query, g_db_feedback, g_schema_context, g_relevant_tables, handlerVars>>

graphVars == <<j_phase, j_tables, j_result>>

\* the state of the remaining components
indexVars == <<s_index_built, s_tfidf, s_table_names, s_table_docs, s_history>>

breakerVars == <<b_cb, b_now, b_req, b_log>>

cacheVars == <<c_cache, c_clock, c_last>>

limiterVars == <<r_requests, r_now, r_admitted, r_last>>

restVars == <<graphVars, indexVars, breakerVars, cacheVars, limiterVars>>

vars == <<sqlVars, planVars, loopVars, restVars>>

ScopingValues == {"E100", "7"}

UserContexts == {"none", "customer", "multi", "admin"}

SelectParts == {<<"SELECT", "*">>, <<"SELECT", "COUNT(*)">>}

FromParts ==
  {<<"FROM", t>> : t \in SchemaTables}
    \cup {<<"FROM", "shipments", "JOIN", "orders">>,
          <<"FROM", "shipments", "JOIN", "invoices">>,
          <<"FROM", "orders", "JOIN", "customers">>}

WhereParts ==
  {<<>>} \cup {<<"WHERE", c, "=", v>> : c \in ColumnTokens, v \in {"'E100'", "'7'", "'71'", "?"}}

TailParts == {<<>>, <<"LIMIT", "10">>}

EndParts ==
  {<<>>, <<";">>, <<";", "DROP", "TABLE", "shipments", ";">>, <<";", "SELECT", "1">>}

\* the SQL texts handed to validate_sql
SqlInputs ==
  {sel \o frm \o whr \o tl \o nd :
     sel \in SelectParts, frm \in FromParts, whr \in WhereParts, tl \in TailParts,
     nd \in EndParts}
    \cup {<<>>,
          <<"DROP", "TABLE", "shipments">>,
          <<"drop", "table", "shipments">>,
          <<"DELETE", "FROM", "shipments">>,
          <<"UPDATE", "shipments">>,
          <<"SELECT", "*", "FROM", "updates", "--x">>,
          <<"SELECT", "*", "FROM", "updates", "/*x*/">>,
          <<"SELECT", "*", "FROM", "invoices", "WHERE", "billing_entity_id", "IN", "('7', '8')">>}

NoResult == Invalid("<not called>")

\* the validate_sql component is not in use
SqlIdle ==
  /\ v_phase = "idle"
  /\ v_sql = <<>>
  /\ v_scoping_value = "E100"
  /\ v_ctx = "none"
  /\ v_auto = TRUE
  /\ v_ast = FALSE
  /\ v_result = NoResult
  /\ v_result2 = NoResult

\* the validate_plan component is not in use
PlanIdle ==
  /\ p_phase = "idle"
  /\ p_raw = [parsed |-> FALSE]
  /\ p_user_query = ""
  /\ p_legacy = FALSE
  /\ p_result = PlanInvalid("<not called>", <<>>)

NoLoopResult ==
  [success |-> FALSE, sql |-> NoSql, tables_used |-> <<>>, attempts |-> 0,
   error |-> <<"<not returned>">>]

\* a schema description before any is built
NoDescription == [tables |-> <<>>, relationships |-> <<>>]

\* no generate_sql call is open: its locals do not exist
HandlerIdle ==
  /\ h_pc = "idle"
  /\ h_pending = {}
  /\ h_relevant_tables = <<>>
  /\ h_schema_desc = NoDescription
  /\ h_validation_result = PlanInvalid("<not called>", <<>>)
  /\ h_plan_json = [parsed |-> FALSE]
  /\ h_sql = NoSql

\* the validation loop is not in use
LoopIdle ==
  /\ HandlerIdle
  /\ g_schema_context = NoDescription
  /\ g_pc = "idle"
  /\ g_attempt = 0
  /\ g_calls = 0
  /\ g_sql = NoSql
  /\ g_validation_result = NoResult
  /\ g_current_tables = <<>>
  /\ g_relevant_tables = <<>>
  /\ g_result = NoLoopResult
  /\ g_user_query = ""
  /\ g_db_feedback = FALSE

\* get_join_path is not in use
GraphIdle ==
  /\ j_phase = "idle"
  /\ j_tables = <<>>
  /\ j_result = [exc |-> FALSE, joins |-> <<>>]

\* the retrieval index is not in use (and not built)
IndexIdle ==
  /\ s_index_built = FALSE
  /\ s_tfidf = FALSE
  /\ s_table_names = <<>>
  /\ s_table_docs = <<>>
  /\ s_history = <<>>

\* never: last_failure_time is None
NoTime == 0 - 1

\* CircuitBreaker.__init__
NewCircuitBreaker ==
  [state |-> "CLOSED", failure_count |-> 0, last_failure_time |-> NoTime]

\* no provider call is made
BreakerIdle ==
  /\ b_cb = NewCircuitBreaker
  /\ b_now = 0
  /\ b_req = <<>>
  /\ b_log = <<>>

\* a description that was never built (None)
NoContext == [header |-> "None", tables |-> <<>>, relationships |-> <<>>]

NoEntry == [key |-> [tables |-> {}, query |-> ""], description |-> NoContext,
            inserted |-> 0, read |-> 0]

\* the schema cache is empty and unused
CacheIdle ==
  /\ c_cache = <<>>
  /\ c_clock = 0
  /\ c_last = [op |-> "none", tables |-> <<>>, query |-> "", ctx |-> "none",
               returned |-> NoContext, evicted |-> NoEntry]

\* the rate limiter has seen no request
LimiterIdle ==
  /\ r_requests = <<>>
  /\ r_now = 0
  /\ r_admitted = <<>>
  /\ r_last = [client_id |-> "", allowed |-> FALSE]

RestIdle == GraphIdle /\ IndexIdle /\ BreakerIdle /\ CacheIdle /\ LimiterIdle

InitSql ==
  /\ PlanIdle
  /\ LoopIdle
  /\ RestIdle
  /\ v_phase = "input"
  /\ v_sql \in SqlInputs
  /\ v_scoping_value \in ScopingValues
  /\ v_ctx \in UserContexts
  /\ v_auto \in BOOLEAN
  /\ v_ast \in BOOLEAN
  /\ v_result = NoResult
  /\ v_result2 = NoResult

\* validator.validate_sql(sql, scoping_value, user_context)
ValidateSqlCall ==
  /\ v_phase = "input"
  /\ \E rev \in BOOLEAN :
       v_result' = ValidateSql(v_sql, v_scoping_value, v_ctx, v_auto, v_ast, rev)
  /\ v_phase' = "validated"
  /\ UNCHANGED <<v_sql, v_scoping_value, v_ctx, v_auto, v_ast, v_result2, planVars, loopVars, restVars>>

\* validate_sql again, on the SQL the first call returned
RevalidateSqlCall ==
  /\ v_phase = "validated"
  /\ v_result.valid
  /\ \E rev \in BOOLEAN :
       v_result2' = ValidateSql(v_result.modified_sql, v_scoping_value, v_ctx,
                                v_auto, v_ast, rev)
  /\ v_phase' = "revalidated"
  /\ UNCHANGED <<v_sql, v_scoping_value, v_ctx, v_auto, v_ast, v_result, planVars, loopVars, restVars>>

NextSql == ValidateSqlCall \/ RevalidateSqlCall

SpecSql == InitSql /\ [][NextSql]_vars

(***************************************************************************)
(* validate_plan: one call on one LLM plan text                            *)
(***************************************************************************)
MaxPlanTables == 2

PlanTableNames == {"shipments", "orders", "customers", "bogus"}

LlmJoin(a, b) ==
  [from_table |-> a, to_table |-> b, from_column |-> "ref", to_column |-> "id",
   type |-> "LEFT"]

PlanJoinInputs ==
  {<<>>, <<LlmJoin("shipments", "orders")>>, <<LlmJoin("orders", "customers")>>,
   <<LlmJoin("customers", "shipments")>>}

PlanColumnInputs ==
  {EmptyColumns,
   [t \in {"shipments"} |-> <<"id", "no_such_column">>],
   [t \in {"orders", "customers"} |-> IF t = "orders" THEN <<"total">> ELSE <<"name">>]}

FullPlan(tables, columns, joins, grouped) ==
  [tables |-> tables, columns |-> columns, joins |-> joins, filters |-> <<>>,
   group_by |-> IF grouped THEN <<"status">> ELSE <<>>, order_by |-> <<>>,
   limit |-> IF grouped THEN "10" ELSE NullLimit, needs_scoping |-> FALSE]

FullPlans ==
  {FullPlan(tables, columns, joins, grouped) :
     tables \in SeqsUpTo(PlanTableNames, MaxPlanTables), columns \in PlanColumnInputs,
     joins \in PlanJoinInputs, grouped \in BOOLEAN}

\* plans in which the LLM left out some of the fields
PartialPlans ==
  {[f \in fields |-> full[f]] :
     fields \in (SUBSET Range(required_fields)) \ {Range(required_fields)},
     full \in {FullPlan(<<"shipments">>, EmptyColumns, <<>>, FALSE),
               FullPlan(<<"bogus", "orders">>, EmptyColumns,
                        <<LlmJoin("shipments", "orders")>>, TRUE)}}

\* the plan texts handed to validate_plan
PlanInputs ==
  {[parsed |-> FALSE]} \cup {[parsed |-> TRUE, plan |-> pl] : pl \in FullPlans \cup PartialPlans}

UserQueries ==
  {"how many shipments are delivered", "how many shipments today", "list shipments",
   "show orders created this week", "shipments delivered yesterday",
   "list customers by country", "customers"}

InitPlan ==
  /\ SqlIdle
  /\ LoopIdle
  /\ RestIdle
  /\ p_phase = "input"
  /\ p_raw \in PlanInputs
  /\ p_user_query \in UserQueries
  /\ p_legacy \in BOOLEAN
  /\ p_result = PlanInvalid("<not called>", <<>>)

\* plan_validator.validate_plan(plan_json, user_query)
ValidatePlanCall ==
  /\ p_phase = "input"
  /\ p_result' \in ValidatePlan(p_raw, p_user_query, p_legacy)
  /\ p_phase' = "validated"
  /\ UNCHANGED <<p_raw, p_user_query, p_legacy, sqlVars, loopVars, restVars>>

NextPlan == ValidatePlanCall

SpecPlan == InitPlan /\ [][NextPlan]_vars

(***************************************************************************)
(* get_join_path: one call on one list of tables                           *)
(***************************************************************************)
MaxPathTables == 3

\* the table lists handed to get_join_path
JoinPathInputs == SeqsUpTo(SchemaTables \cup {"bogus"}, MaxPathTables)

InitGraph ==
  /\ SqlIdle
  /\ PlanIdle
  /\ LoopIdle
  /\ j_phase = "input"
  /\ j_tables \in JoinPathInputs
  /\ j_result = [exc |-> FALSE, joins |-> <<>>]
  /\ IndexIdle
  /\ BreakerIdle
  /\ CacheIdle
  /\ LimiterIdle

\* schema_graph.get_join_path(tables)
GetJoinPathCall ==
  /\ j_phase = "input"
  /\ j_result' \in GetJoinPath(j_tables)
  /\ j_phase' = "returned"
  /\ UNCHANGED <<j_tables, sqlVars, planVars, loopVars, indexVars, breakerVars, cacheVars,
                 limiterVars>>

NextGraph == GetJoinPathCall

SpecGraph == InitGraph /\ [][NextGraph]_vars

\* join handling as a whole: either one validate_plan call or one get_join_path call
InitJoins == InitPlan \/ InitGraph

NextJoins == ValidatePlanCall \/ GetJoinPathCall

SpecJoins == InitJoins /\ [][NextJoins]_vars

(***************************************************************************)
(* SchemaIndex: lazily built retrieval index and search_tables.  Scores    *)
(* are fixed-point numbers in thousandths.                                 *)
(***************************************************************************)
\* table_info['description'], tokenized
DescriptionTokens(t) ==
  CASE t = "shipments" -> <<"shipment", "tracking", "status">>
    [] t = "orders" -> <<"customer", "orders">>
    [] t = "customers" -> <<"customer", "information">>
    [] t = "invoices" -> <<"billing", "orders">>
    [] OTHER -> <<"status", "updates">>

\* graph_data['keyword_mappings'], in dict order
KeywordMappings ==
  << [keyword |-> "shipment", tables |-> <<"shipments">>],
     [keyword |-> "order", tables |-> <<"orders", "invoices">>],
     [keyword |-> "status", tables |-> <<"shipments", "updates">>] >>

\* a in b, for the keywords and the query tokens of the fixture
IsSubstring(a, b) ==
  a = b \/ <<a, b>> \in {<<"shipment", "shipments">>, <<"order", "orders">>}

\* _tokenize: re.findall(r'\b\w+\b', text.lower())
Tokenize(text) == Lower(text)

\* the keywords mapped to a table, tokenized, in mapping order
RECURSIVE KeywordTokens(_, _)
KeywordTokens(t, i) ==
  IF i > Len(KeywordMappings) THEN <<>>
  ELSE (IF t \in Range(KeywordMappings[i].tables)
          THEN <<KeywordMappings[i].keyword>> ELSE <<>>)
       \o KeywordTokens(t, i + 1)

\* _build_index: one document per table, in schema enumeration order
BuildIndex ==
  [table_names |-> TableOrder,
   table_docs |-> [i \in 1..Len(TableOrder) |->
                    <<TableOrder[i], TableOrder[i], TableOrder[i]>>
                      \o DescriptionTokens(TableOrder[i])
                      \o TableInfo[TableOrder[i]].columns
                      \o KeywordTokens(TableOrder[i], 1)]]

CountOf(items, x) == Cardinality({i \in 1..Len(items) : items[i] = x})

\* 1000 * math.log(n / df), for the five documents of the fixture
LogThousandths(n, df) ==
  CASE n = df -> 0
    [] n = 5 /\ df = 1 -> 1609
    [] n = 5 /\ df = 2 -> 916
    [] n = 5 /\ df = 3 -> 511
    [] n = 5 /\ df = 4 -> 223
    [] OTHER -> 0

RECURSIVE SumLen(_)
SumLen(docs) == IF Len(docs) = 0 THEN 0 ELSE Len(Head(docs)) + SumLen(Tail(docs))

\* _compute_bm25_score with k1 = 1.2 and b = 0.75
RECURSIVE Bm25Score(_, _, _)
Bm25Score(query_tokens, doc_tokens, table_docs) ==
  IF Len(query_tokens) = 0 \/ Len(doc_tokens) = 0 THEN 0
  ELSE LET term == Head(query_tokens)
           tf == CountOf(doc_tokens, term)
           df == Cardinality({i \in 1..Len(table_docs) : term \in Range(table_docs[i])})
           idf == LogThousandths(Len(table_docs), df)
           \* 1000 * b * doc_length / avg_doc_length
           ratio == (750 * Len(doc_tokens) * Len(table_docs)) \div SumLen(table_docs)
           denom == 1000 * tf + (1200 * (250 + ratio)) \div 1000
           rest == IF Len(query_tokens) = 1 THEN 0
                   ELSE Bm25Score(Tail(query_tokens), doc_tokens, table_docs)
       IN  (IF tf > 0 THEN (idf * tf * 2200) \div denom ELSE 0) + rest

\* nx.degree_centrality: (in-degree + out-degree) / (n - 1)
CentralityScore(table_name) ==
  (1000 * Cardinality({i \in 1..Len(Relationships) :
                         table_name \in {Relationships[i].from, Relationships[i].to}}))
    \div (Cardinality(GraphNodes) - 1)

\* _compute_tfidf_score: 0 without the vectorizer; with it, the cosine similarity
\* scikit-learn computes for the query and the document, a fixed value per pair
\* (here the share of the query's distinct tokens that occur in the document)
TfidfScore(query_tokens, doc_tokens, tfidf) ==
  IF ~tfidf \/ Len(query_tokens) = 0 THEN 0
  ELSE (1000 * Cardinality(Range(query_tokens) \cap Range(doc_tokens)))
         \div (Cardinality(Range(query_tokens)) + 1)

\* a keyword boost that also grows with every search served so far
KeywordBoostWithHitCounter(query_tokens, table_name) ==
  2000 * Len(s_history)
    + 2000 * Cardinality({<<i, k>> \in (1..Len(query_tokens)) \X (1..Len(KeywordMappings)) :
         /\ \/ IsSubstring(KeywordMappings[k].keyword, query_tokens[i])
            \/ IsSubstring(query_tokens[i], KeywordMappings[k].keyword)
         /\ table_name \in Range(KeywordMappings[k].tables)})

\* keyword_boost.get(table_name, 0.0): 2.0 for every (token, keyword) pair that
\* matches and maps to the table
KeywordBoost(query_tokens, table_name) ==
  2000 * Cardinality({<<i, k>> \in (1..Len(query_tokens)) \X (1..Len(KeywordMappings)) :
         /\ \/ IsSubstring(KeywordMappings[k].keyword, query_tokens[i])
            \/ IsSubstring(query_tokens[i], KeywordMappings[k].keyword)
         /\ table_name \in Range(KeywordMappings[k].tables)})

\* combined_score = bm25 * 1.0 + tfidf * 0.8 + centrality * 0.3 + boost
CombinedScore(query_tokens, i, table_names, table_docs, tfidf) ==
  Bm25Score(query_tokens, table_docs[i], table_docs)
    + (TfidfScore(query_tokens, table_docs[i], tfidf) * 8) \div 10
    + (CentralityScore(table_names[i]) * 3) \div 10
    + KeywordBoost(query_tokens, table_names[i])

\* list.sort(key=score, reverse=True): stable, so equal scores keep their order
RECURSIVE SortByScore(_)
SortByScore(scores) ==
  IF Len(scores) = 0 THEN <<>>
  ELSE LET front == SortByScore(SubSeq(scores, 1, Len(scores) - 1))
           last == scores[Len(scores)]
           n == Cardinality({i \in 1..Len(front) : front[i].score >= last.score})
       IN  SubSeq(front, 1, n) \o <<last>> \o SubSeq(front, n + 1, Len(front))

\* search_tables after _ensure_index
SearchTables(query, top_k, min_score, table_names, table_docs, tfidf) ==
  LET query_tokens == Tokenize(query)
      all == [i \in 1..Len(table_names) |->
                [table |-> table_names[i],
                 score |-> CombinedScore(query_tokens, i, table_names, table_docs, tfidf)]]
      sorted == SortByScore(SelectSeq(all, LAMBDA e : e.score >= min_score))
  IN  IF Len(query_tokens) = 0 THEN <<>>
      ELSE SubSeq(sorted, 1, IF top_k < Len(sorted) THEN top_k ELSE Len(sorted))

MaxSearches == 3

\* the queries, as the words of the text
SearchQueries ==
  {<<>>, <<"SHIPMENTS">>, <<"shipments", "status">>, <<"orders">>,
   <<"customers", "orders">>}

TopKInputs == {1, 10}

MinScoreInputs == {50, 2500}

\* whether scikit-learn is installed is a property of the deployment
InitIndex ==
  /\ SqlIdle
  /\ PlanIdle
  /\ LoopIdle
  /\ GraphIdle
  /\ s_index_built = FALSE
  /\ s_tfidf \in BOOLEAN
  /\ s_table_names = <<>>
  /\ s_table_docs = <<>>
  /\ s_history = <<>>
  /\ BreakerIdle
  /\ CacheIdle
  /\ LimiterIdle

\* schema_index.search_tables(query, top_k, min_score), _ensure_index included
SearchTablesCall ==
  /\ Len(s_history) < MaxSearches
  /\ \E query \in SearchQueries, top_k \in TopKInputs, min_score \in MinScoreInputs :
       LET index == IF s_index_built
                      THEN [table_names |-> s_table_names, table_docs |-> s_table_docs]
                    ELSE BuildIndex
       IN  /\ s_table_names' = index.table_names
           /\ s_table_docs' = index.table_docs
           /\ s_history' =
                 Append(s_history,
                        [query |-> query, top_k |-> top_k, min_score |-> min_score,
                         result |-> SearchTables(query, top_k, min_score, index.table_names,
                                                 index.table_docs, s_tfidf)])
  /\ s_index_built' = TRUE
  /\ UNCHANGED <<s_tfidf, sqlVars, planVars, loopVars, graphVars, breakerVars, cacheVars,
                 limiterVars>>

NextIndex == SearchTablesCall

SpecIndex == InitIndex /\ [][NextIndex]_vars

(***************************************************************************)
(* CircuitBreaker of one provider, used by concurrent requests.  The       *)
(* requests are coroutines of one event loop: the code between two awaits  *)
(* runs as one step, and `await operation(...)` is where they interleave.  *)
(* Time is counted in ticks.                                               *)
(***************************************************************************)
failure_threshold == 3

\* recovery_timeout, in ticks
recovery_timeout == 2

MaxTime == 4

MaxRecords == 5

MaxRequests == 2

Requests == 1..MaxRequests

\* _should_attempt_reset
ShouldAttemptReset(cb, now) ==
  IF cb.last_failure_time = NoTime THEN TRUE
  ELSE now - cb.last_failure_time >= recovery_timeout

\* can_execute: the answer and the breaker after the call
CanExecute(cb, now) ==
  IF cb.state = "CLOSED" THEN [allowed |-> TRUE, cb |-> cb]
  ELSE IF cb.state = "OPEN"
    THEN IF ShouldAttemptReset(cb, now)
           THEN [allowed |-> TRUE, cb |-> [cb EXCEPT !.state = "HALF_OPEN"]]
         ELSE [allowed |-> FALSE, cb |-> cb]
  ELSE [allowed |-> TRUE, cb |-> cb]

\* a success that closes the breaker and keeps the count of failures
RecordSuccessKeepingCount(cb) == [cb EXCEPT !.state = "CLOSED"]

\* record_success
RecordSuccess(cb) == [cb EXCEPT !.failure_count = 0, !.state = "CLOSED"]

\* a failure recorded from a count read before another failure was recorded:
\* the second of two failures leaves the count at one
RecordFailureFromStaleCount(cb, now) ==
  LET count == IF cb.failure_count = 1 THEN 1 ELSE cb.failure_count + 1
  IN  [cb EXCEPT !.failure_count = count,
                 !.last_failure_time = now,
                 !.state = IF count >= failure_threshold THEN "OPEN" ELSE cb.state]

\* record_failure
RecordFailure(cb, now) ==
  LET count == cb.failure_count + 1
  IN  [cb EXCEPT !.failure_count = count,
                 !.last_failure_time = now,
                 !.state = IF count >= failure_threshold THEN "OPEN" ELSE cb.state]

IdleRequest == [pc |-> "idle", probe |-> FALSE]

InitBreaker ==
  /\ SqlIdle
  /\ PlanIdle
  /\ LoopIdle
  /\ GraphIdle
  /\ IndexIdle
  /\ CacheIdle
  /\ LimiterIdle
  /\ b_cb = NewCircuitBreaker
  /\ b_now = 0
  /\ b_req = [r \in Requests |-> IdleRequest]
  /\ b_log = <<>>

BreakerFrame ==
  UNCHANGED <<sqlVars, planVars, loopVars, graphVars, indexVars, cacheVars, limiterVars>>

\* execute_with_circuit_breaker up to `await operation(...)`: can_execute admits
\* the call (from an OPEN breaker, as the probe) or the call raises at once
BeginCall(r) ==
  /\ b_req[r].pc # "inflight"
  /\ LET can == CanExecute(b_cb, b_now)
     IN  /\ b_cb' = can.cb
         /\ b_req' = [b_req EXCEPT ![r] =
                        IF can.allowed
                          THEN [pc |-> "inflight",
                                probe |-> b_cb.state = "OPEN"]
                        ELSE [pc |-> "rejected", probe |-> FALSE]]
  /\ UNCHANGED <<b_now, b_log>>
  /\ BreakerFrame

\* the operation returns: record_success
OperationReturns(r) ==
  /\ b_req[r].pc = "inflight"
  /\ Len(b_log) < MaxRecords
  /\ b_cb' = RecordSuccess(b_cb)
  /\ b_req' = [b_req EXCEPT ![r].pc = "returned"]
  /\ b_log' = Append(b_log, "success")
  /\ UNCHANGED b_now
  /\ BreakerFrame

\* the operation raises an Exception: record_failure
OperationRaises(r) ==
  /\ b_req[r].pc = "inflight"
  /\ Len(b_log) < MaxRecords
  /\ b_cb' = RecordFailure(b_cb, b_now)
  /\ b_req' = [b_req EXCEPT ![r].pc = "raised"]
  /\ b_log' = Append(b_log, "failure")
  /\ UNCHANGED b_now
  /\ BreakerFrame

\* the awaiting coroutine is cancelled: CancelledError is not an Exception, so
\* neither branch records anything
OperationCancelled(r) ==
  /\ b_req[r].pc = "inflight"
  /\ b_req' = [b_req EXCEPT ![r].pc = "cancelled"]
  /\ UNCHANGED <<b_cb, b_now, b_log>>
  /\ BreakerFrame

\* get_state (the health check): it calls can_execute
GetState ==
  /\ b_cb' = CanExecute(b_cb, b_now).cb
  /\ b_cb' # b_cb
  /\ UNCHANGED <<b_now, b_req, b_log>>
  /\ BreakerFrame

\* reset_circuit_breaker
ResetCircuitBreaker ==
  /\ b_cb # NewCircuitBreaker
  /\ Len(b_log) < MaxRecords
  /\ b_cb' = NewCircuitBreaker
  /\ b_log' = Append(b_log, "reset")
  /\ UNCHANGED <<b_now, b_req>>
  /\ BreakerFrame

\* datetime.now() advances
Tick ==
  /\ b_now < MaxTime
  /\ b_now' = b_now + 1
  /\ UNCHANGED <<b_cb, b_req, b_log>>
  /\ BreakerFrame

NextBreaker ==
  \/ \E r \in Requests : BeginCall(r)
  \/ \E r \in Requests : OperationReturns(r)
  \/ \E r \in Requests : OperationRaises(r)
  \/ \E r \in Requests : OperationCancelled(r)
  \/ GetState
  \/ ResetCircuitBreaker
  \/ Tick

SpecBreaker == InitBreaker /\ [][NextBreaker]_vars

(***************************************************************************)
(* IntelligentSQLGenerator: helpers of the validation loop                 *)
(***************************************************************************)
\* projection_advisor.analyze_intent(user_query)['is_count']
IsCountIntent(user_query) == QueryWords(user_query) \cap CountWords # {}

\* sql.strip().upper().startswith('SELECT COUNT(')
StartsWithSelectCount(sql) ==
  Len(sql) >= 2 /\ UpperMap[sql[1]] = "SELECT" /\ UpperMap[sql[2]] = "COUNT(*)"

\* _fix_count_query
FixCountQuery(sql) ==
  LET low == Lower(sql)
      froms == {i \in 1..(Len(sql) - 1) : low[i] = "from" /\ sql[i + 1] \in WordTokens}
      wheres == {i \in 1..(Len(sql) - 1) : low[i] = "where"}
      w == Min(wheres)
      stops == {i \in (w + 2)..Len(sql) : low[i] = "limit"} \cup {Len(sql) + 1}
  IN  IF froms = {} THEN sql
      ELSE <<"SELECT", "COUNT(*)", "FROM", sql[Min(froms) + 1]>>
             \o (IF wheres = {} THEN <<>>
                 ELSE <<"WHERE">> \o SubSeq(sql, w + 1, Min(stops) - 1))

\* _extract_tables_from_sql: f'from {table_name}' / f'join {table_name}' in sql_lower
ExtractTablesFromSql(sql) ==
  LET low == Lower(sql)
  IN  {t \in SchemaTables :
         \E i \in 1..(Len(sql) - 1) : low[i] \in {"from", "join"} /\ low[i + 1] = t}

\* _validate_columns_against_schema: TRUE when it reports an issue.  The SELECT
\* pattern captures a select list free of the characters f, r, o, m; the WHERE
\* pattern a condition free of the characters of "group|order|limit".  The token
\* vocabulary has no commas in a select list and no GROUP BY / ORDER BY.
ColumnIssues(sql, tables) ==
  LET low == Lower(sql)
      n == Len(sql)
      hasFromChar == {"from", "join", "where", "limit", "drop", "count(*)", "shipments",
                      "orders", "customers", "invoices", "accounts_entity_id"}
      plainWhere == {"*", "=", "(", ")", ";", "1", "10", "?", "%s", "'7'", "'71'",
                     "('7', '8')", "--x", "/*x*/"}
      selected == {low[i + 1] : i \in {j \in 1..(n - 2) :
                     /\ low[j] = "select"
                     /\ \E k \in (j + 2)..n :
                          /\ low[k] = "from"
                          /\ \A m \in (j + 1)..(k - 1) : low[m] \notin hasFromChar}}
      compared == {low[i + 1] : i \in {j \in 1..(n - 1) :
                     /\ low[j] = "where"
                     /\ \E k \in (j + 2)..(n + 1) :
                          /\ k = n + 1 \/ low[k] = "limit"
                          /\ \A m \in (j + 1)..(k - 1) : low[m] \in plainWhere}}
      cleaned == {c \in selected \cup compared :
                    c \notin {"and", "in", "1", "10", "*", "(", ")", "count(*)",
                              "('7', '8')", "('e100', '8')"}}
      available == UNION {Range(TableInfo[t].columns) : t \in tables \cap SchemaTables}
  IN  \E c \in cleaned : c \notin available

\* a scoped table whose scoping column is the configured SCOPING_COLUMN
EntityScoped(t) ==
  t \in SchemaTables /\ TableInfo[t].scoped /\ ScopingColumnOf(t) = SCOPING_COLUMN

\* "Schema accuracy issues: " + "; ".join(accuracy_issues)
AccuracyError(issues) ==
  "schema accuracy issues:"
    \o (IF "column" \in issues THEN " column doesn't exist;" ELSE "")
    \o (IF "scope" \in issues THEN " missing scoping filter;" ELSE "")
    \o (IF "parent" \in issues THEN " missing tenant scoping, join the parent;" ELSE "")

\* the checks _validate_sql_with_schema_accuracy adds to a valid validate_sql
\* result; the carrier/supplier, status-code and date heuristics look for names the
\* token vocabulary does not have
AccuracyChecks(validation_result, sql, val, ctx, tables) ==
  LET used_tables == validation_result.tables
      low == Lower(sql)
      checked == ctx # "none" /\ ScopingRequirements(ctx, val).scoping_required
      absent == SCOPING_COLUMN \notin Range(low)
      parents == {r.to : r \in {q \in Range(Relationships) : q.from \in used_tables}}
                   \cup {r.from : r \in {q \in Range(Relationships) : q.to \in used_tables}}
      issues ==
        (IF ColumnIssues(sql, used_tables) THEN {"column"} ELSE {})
          \cup (IF checked /\ absent /\ \E t \in used_tables : EntityScoped(t)
                  THEN {"scope"} ELSE {})
          \cup (IF /\ checked /\ absent
                   /\ \A t \in used_tables : ~EntityScoped(t)
                   /\ \E t \in parents : EntityScoped(t)
                  THEN {"parent"} ELSE {})
  IN  IF ~validation_result.valid THEN validation_result
      ELSE IF issues # {}
        THEN [Invalid(AccuracyError(issues)) EXCEPT !.modified_sql = sql,
                                                    !.tables = Range(tables)]
      ELSE validation_result

\* _validate_sql_with_schema_accuracy
ValidateSqlWithSchemaAccuracy(sql, val, ctx, tables, auto, ast, rev) ==
  AccuracyChecks(ValidateSql(sql, val, ctx, auto, ast, rev), sql, val, ctx, tables)

core_scoped_tables == <<"entities", "shipments", "orders", "locations", "transactions">>

\* _add_missing_scoped_tables
AddMissingScopedTables(current_tables) ==
  SelectSeq(core_scoped_tables,
            LAMBDA t : /\ t \notin Range(current_tables)
                       /\ t \in SchemaTables
                       /\ TableInfo[t].scoped)

RECURSIVE Flatten(_)
Flatten(ss) == IF Len(ss) = 0 THEN <<>> ELSE Head(ss) \o Flatten(Tail(ss))

\* _get_relationship_context
GetRelationshipContext(relevant_tables) ==
  LET known == Range(relevant_tables)
      other(table, r) ==
        IF r.from = table /\ r.to \notin known THEN <<r.to>>
        ELSE IF r.to = table /\ r.from \notin known THEN <<r.from>>
        ELSE <<>>
  IN  Flatten([i \in 1..Len(relevant_tables) |->
                 IF relevant_tables[i] \in SchemaTables
                   THEN Flatten([j \in 1..Len(Relationships) |->
                                   other(relevant_tables[i], Relationships[j])])
                   ELSE <<>>])

AccuracyErrors == {AccuracyError(issues) : issues \in SUBSET {"column", "scope", "parent"}}

\* the validation errors whose lower-cased text contains "scoping"
ScopingErrors ==
  {"scoping filter missing", "missing scoping filter on alias"}
    \cup (AccuracyErrors \ {AccuracyError({}), AccuracyError({"column"})})

\* the validation errors whose lower-cased text contains "join" or "relationship"
JoinErrors ==
  {"database error near join"}
    \cup {AccuracyError(issues \cup {"parent"}) : issues \in SUBSET {"column", "scope"}}

\* a refinement that replaces the table list by the scoped tables it found missing
RefineSchemaContextReplacing(validation_error, current_tables) ==
  LET scoped == IF validation_error \in ScopingErrors
                  THEN AddMissingScopedTables(current_tables)
                  ELSE current_tables
  IN  IF validation_error \in JoinErrors
        THEN Dedup(scoped \o GetRelationshipContext(scoped))
        ELSE scoped

\* _refine_schema_context: the refined table list
RefineSchemaContext(validation_error, current_tables) ==
  LET scoped == IF validation_error \in ScopingErrors
                  THEN Dedup(current_tables \o AddMissingScopedTables(current_tables))
                  ELSE current_tables
  IN  IF validation_error \in JoinErrors
        THEN Dedup(scoped \o GetRelationshipContext(scoped))
        ELSE scoped

\* the tables _refine_schema_context appends in place, with extend, to the list
\* object it is called with, before `current_tables = list(dict.fromkeys(...))`
\* binds the name to a new list
ExtendedInPlace(validation_error, current_tables) ==
  IF validation_error \in ScopingErrors THEN AddMissingScopedTables(current_tables)
  ELSE IF validation_error \in JoinErrors THEN GetRelationshipContext(current_tables)
  ELSE <<>>

\* a loop that works on the caller's list itself: the extend reaches it
CallerRelevantTablesShared(relevant_tables, validation_error, current_tables) ==
  relevant_tables \o ExtendedInPlace(validation_error, current_tables)

\* the caller's relevant_tables after a refinement: the loop extends
\* relevant_tables.copy(), a list of its own, so the caller's list keeps its items
CallerRelevantTables(relevant_tables, validation_error, current_tables) ==
  relevant_tables

\* the tables-in-plan check of the loop on a validation result
PlanTablesCheck(validation_result, sql, current_tables) ==
  IF validation_result.valid /\ ~(ExtractTablesFromSql(sql) \subseteq Range(current_tables))
    THEN [Invalid("sql uses tables not in plan")
            EXCEPT !.modified_sql = sql, !.tables = Range(current_tables)]
    ELSE validation_result

\* db_executor.execute_query(f"EXPLAIN {modified_sql.rstrip(';')}") as seen by the
\* loop: skipped unless the SQL is valid and ENABLE_DB_FEEDBACK_LOOP is set; the
\* import or the engine can raise, _validate_sql_for_execution rejects a dangerous
\* word, and the database accepts or rejects the rest; the text of a database
\* error is the engine's and may quote the statement near a JOIN
DbExplainOutcomes(validation_result, db_feedback) ==
  IF ~(validation_result.valid /\ db_feedback) THEN {"skipped"}
  ELSE {"raises", "error", "error near join"} \cup
         (IF \E i \in 1..Len(validation_result.modified_sql) :
                UpperMap[validation_result.modified_sql[i]] \in DangerousKeywords
            THEN {} ELSE {"ok"})

\* the validation_result after the EXPLAIN feedback with outcome db
AfterDbFeedback(validation_result, db) ==
  IF db \in {"error", "error near join"}
    THEN [Invalid(IF db = "error" THEN "database error" ELSE "database error near join")
            EXCEPT !.modified_sql = validation_result.modified_sql,
                   !.tables = validation_result.tables]
    ELSE validation_result

\* the orders in which the set of used tables can be listed (rev of ScopedList)
ListOrders(sql) ==
  IF Cardinality(ExtractTables(FirstStatement(sql)) \cap ScopedTables) > 1 THEN BOOLEAN
  ELSE {FALSE}

\* the validation results the EXPLAIN feedback can leave
FeedbackResults(validation_result, db_feedback) ==
  {AfterDbFeedback(validation_result, db) :
     db \in DbExplainOutcomes(validation_result, db_feedback)}

\* the validation_result values one iteration of the loop can end with for sql
LoopValidations(sql, val, ctx, current_tables, auto, ast, db_feedback) ==
  UNION {FeedbackResults(
           PlanTablesCheck(
             ValidateSqlWithSchemaAccuracy(sql, val, ctx, current_tables, auto, ast, rev),
             sql, current_tables),
           db_feedback)
         : rev \in ListOrders(sql)}

(***************************************************************************)
(* _generate_with_validation_loop: one action per way an iteration can go  *)
(***************************************************************************)
MAX_VALIDATION_ATTEMPTS == 3

\* an iteration that forgets to count itself
NextAttemptStuck(attempt) == attempt

\* attempt += 1
NextAttempt(attempt) == attempt + 1

\* a Success result that reports the 0-based loop counter
SuccessAttemptsZeroBased(attempt) == attempt

\* "attempts": attempt + 1 of a Success result
SuccessAttempts(attempt) == attempt + 1

\* what llm_handler.generate_sql can return
LlmSqlOutputs ==
  {<<"SELECT", "*", "FROM", "shipments", "WHERE", "accounts_entity_id", "=", "'E100'">>,
   <<"SELECT", "*", "FROM", "shipments">>,
   <<"SELECT", "COUNT(*)", "FROM", "shipments", "WHERE", "accounts_entity_id", "=", "'E100'">>,
   <<"SELECT", "*", "FROM", "shipments", "WHERE", "accounts_entity_id", "=", "'E100'",
     "LIMIT", "10", ";">>,
   <<"SELECT", "*", "FROM", "orders", "WHERE", "accounts_entity_id", "=", "'E100'">>,
   <<"SELECT", "status", "FROM", "customers">>,
   <<"SELECT", "*", "FROM", "customers">>,
   <<"SELECT", "*", "FROM", "customers", ";", "DROP", "TABLE", "shipments">>,
   <<"DROP", "TABLE", "shipments">>}

\* what llm_handler.generate_sql can raise
LlmErrors == {"llm provider error", "llm provider timeout", "plan validation failed"}

RelevantTableInputs == {<<"shipments">>, <<"customers">>, <<"shipments", "orders">>}

LoopQueries == {"how many shipments today", "list shipments"}

\* _build_focused_schema_description as _refine_schema_context calls it (no user
\* context): a "Table:" block per listed table of the schema, then the relationships
\* that touch a listed table
BuildFocusedSchemaDescription(tables) ==
  [tables |-> SelectSeq(tables, LAMBDA t : t \in SchemaTables),
   relationships |->
     SelectSeq(Relationships, LAMBDA r : r.from \in Range(tables) \/ r.to \in Range(tables))]

\* the schema_context the loop is called with: _build_optimized_schema_context
\* describes the relevant tables, with their relationship tables when the query
\* context asks for relationships
InitialSchemaContexts(relevant_tables) ==
  {BuildFocusedSchemaDescription(relevant_tables),
   BuildFocusedSchemaDescription(
     Dedup(relevant_tables \o GetRelationshipContext(relevant_tables)))}

Init ==
  /\ PlanIdle
  /\ RestIdle
  /\ HandlerIdle
  /\ v_phase = "idle"
  /\ v_sql = <<>>
  /\ v_result = NoResult
  /\ v_result2 = NoResult
  /\ v_scoping_value \in ScopingValues
  /\ v_ctx \in UserContexts
  /\ v_auto \in BOOLEAN
  /\ v_ast \in BOOLEAN
  /\ g_pc = "loop"
  /\ g_attempt = 0
  /\ g_calls = 0
  /\ g_sql = NoSql
  /\ g_validation_result = NoResult
  /\ g_relevant_tables \in RelevantTableInputs
  /\ g_current_tables = g_relevant_tables
  /\ g_schema_context \in InitialSchemaContexts(g_current_tables)
  /\ g_result = NoLoopResult
  /\ g_user_query \in LoopQueries
  /\ g_db_feedback \in BOOLEAN

LoopRunning == g_pc = "loop" /\ g_attempt < MAX_VALIDATION_ATTEMPTS

LoopConstants == <<g_user_query, g_db_feedback, sqlVars, planVars, restVars>>

\* the SQL an iteration works with: the LLM output, rewritten by _fix_count_query
\* when the query has count intent and the output is not a COUNT
AttemptSql(out) ==
  IF IsCountIntent(g_user_query) /\ ~StartsWithSelectCount(out) THEN FixCountQuery(out)
  ELSE out

\* an except branch that returns the failure on the first exception
ExceptionEndsRequestAlways(attempt) == TRUE

\* if attempt >= self.MAX_VALIDATION_ATTEMPTS: return the failure result
ExceptionEndsRequest(attempt) == attempt >= MAX_VALIDATION_ATTEMPTS

\* except Exception as e: the iteration whose generate_sql call raised e
IterationRaises(e) ==
  /\ LoopRunning
  /\ LET attempt == NextAttempt(g_attempt)
     IN  /\ g_attempt' = attempt
         /\ IF ExceptionEndsRequest(attempt)
              THEN /\ g_pc' = "done"
                   /\ g_result' = [success |-> FALSE, sql |-> <<>>,
                                   tables_used |-> g_current_tables,
                                   attempts |-> attempt,
                                   error |-> <<"SQL generation failed:", e>>]
              ELSE UNCHANGED <<g_pc, g_result>>
  /\ g_calls' = g_calls + 1
  /\ UNCHANGED <<g_sql, g_validation_result, g_current_tables, g_schema_context,
                 g_relevant_tables, LoopConstants>>

\* the iteration whose generate_sql call returned a COUNT (out) for a query
\* without count intent
IterationCountMismatch(out) ==
  /\ LoopRunning
  /\ ~IsCountIntent(g_user_query)
  /\ StartsWithSelectCount(out)
  /\ LET attempt == NextAttempt(g_attempt)
         validation_result ==
           [Invalid("llm returned count but details were requested")
              EXCEPT !.modified_sql = out, !.tables = Range(g_current_tables)]
         refined == RefineSchemaContext(validation_result.error, g_current_tables)
     IN  /\ g_sql' = out
         /\ g_validation_result' = validation_result
         /\ g_attempt' = attempt
         /\ IF attempt < MAX_VALIDATION_ATTEMPTS
              THEN /\ g_current_tables' = refined
                   /\ g_schema_context' = BuildFocusedSchemaDescription(refined)
                   /\ g_relevant_tables' =
                        CallerRelevantTables(g_relevant_tables, validation_result.error,
                                             g_current_tables)
                   /\ UNCHANGED <<g_pc, g_result>>
              ELSE /\ g_pc' = "done"
                   /\ g_result' = [success |-> FALSE, sql |-> out,
                                   tables_used |-> g_current_tables,
                                   attempts |-> attempt,
                                   error |-> <<validation_result.error>>]
                   /\ UNCHANGED <<g_current_tables, g_schema_context, g_relevant_tables>>
  /\ g_calls' = g_calls + 1
  /\ UNCHANGED LoopConstants

\* the iteration whose SQL (out, as generate_sql returned it) passes every
\* validation (and the EXPLAIN feedback, or that raised)
IterationSucceeds(out) ==
  /\ LoopRunning
  /\ IsCountIntent(g_user_query) \/ ~StartsWithSelectCount(out)
  /\ \E validation_result \in
         LoopValidations(AttemptSql(out), v_scoping_value, v_ctx, g_current_tables,
                         v_auto, v_ast, g_db_feedback) :
       /\ validation_result.valid
       /\ g_sql' = AttemptSql(out)
       /\ g_validation_result' = validation_result
       /\ g_result' = [success |-> TRUE, sql |-> validation_result.modified_sql,
                       tables_used |-> validation_result.tables,
                       attempts |-> SuccessAttempts(g_attempt),
                       error |-> <<>>]
  /\ g_pc' = "done"
  /\ g_calls' = g_calls + 1
  /\ UNCHANGED <<g_attempt, g_current_tables, g_schema_context, g_relevant_tables,
                 LoopConstants>>

\* the iteration whose SQL fails a validation: refine the context for the retry
IterationInvalid(out) ==
  /\ LoopRunning
  /\ IsCountIntent(g_user_query) \/ ~StartsWithSelectCount(out)
  /\ \E validation_result \in
         LoopValidations(AttemptSql(out), v_scoping_value, v_ctx, g_current_tables,
                         v_auto, v_ast, g_db_feedback) :
       LET refined == RefineSchemaContext(validation_result.error, g_current_tables)
       IN  /\ ~validation_result.valid
           /\ g_sql' = AttemptSql(out)
           /\ g_validation_result' = validation_result
           /\ g_attempt' = NextAttempt(g_attempt)
           /\ IF NextAttempt(g_attempt) < MAX_VALIDATION_ATTEMPTS
                THEN /\ g_current_tables' = refined
                     /\ g_schema_context' = BuildFocusedSchemaDescription(refined)
                     /\ g_relevant_tables' =
                          CallerRelevantTables(g_relevant_tables, validation_result.error,
                                               g_current_tables)
                ELSE UNCHANGED <<g_current_tables, g_schema_context, g_relevant_tables>>
  /\ g_calls' = g_calls + 1
  /\ UNCHANGED <<g_pc, g_result, LoopConstants>>

\* generate_sql raises: except Exception
GenerateSqlRaises ==
  /\ \E e \in LlmErrors : IterationRaises(e)
  /\ UNCHANGED handlerVars

\* the LLM returns a COUNT for a query without count intent
AttemptCountMismatch ==
  /\ \E out \in LlmSqlOutputs : IterationCountMismatch(out)
  /\ UNCHANGED handlerVars

\* the SQL passes every validation (and the EXPLAIN feedback, or that raised)
AttemptSucceeds ==
  /\ \E out \in LlmSqlOutputs : IterationSucceeds(out)
  /\ UNCHANGED handlerVars

\* the SQL fails a validation: refine the context and try again
AttemptInvalid ==
  /\ \E out \in LlmSqlOutputs : IterationInvalid(out)
  /\ UNCHANGED handlerVars

\* the while condition fails: the return after the loop
ExitExhausted ==
  /\ g_pc = "loop"
  /\ g_attempt >= MAX_VALIDATION_ATTEMPTS
  /\ h_pc = "idle"
  /\ g_pc' = "done"
  /\ g_result' = [success |-> FALSE,
                  sql |-> IF g_sql = NoSql THEN <<>> ELSE g_sql,
                  tables_used |-> g_current_tables,
                  attempts |-> g_attempt,
                  error |-> <<"Failed to generate valid SQL after attempts. Last validation error:",
                              g_validation_result.error>>]
  /\ UNCHANGED <<g_attempt, g_calls, g_sql, g_validation_result, g_current_tables,
                 g_schema_context, g_relevant_tables, handlerVars, LoopConstants>>

Next ==
  \/ GenerateSqlRaises
  \/ AttemptCountMismatch
  \/ AttemptSucceeds
  \/ AttemptInvalid
  \/ ExitExhausted

Spec == Init /\ [][Next]_vars

\* the loop runs to its return: an iteration that can be taken is taken
FairSpec == Spec /\ WF_vars(Next)

(***************************************************************************)
(* LLMHandler.generate_sql inside the loop: one action per stretch of code *)
(* between two awaits                                                      *)
(***************************************************************************)
\* json.dumps(plan): a text that json.loads reads back as plan
JsonDumps(plan) == [parsed |-> TRUE, plan |-> plan]

\* what provider.generate_plan can return
LlmPlanOutputs ==
  {[parsed |-> FALSE],
   JsonDumps(FullPlan(<<"shipments">>, EmptyColumns, <<>>, FALSE)),
   JsonDumps(FullPlan(<<"bogus">>, EmptyColumns, <<>>, FALSE)),
   JsonDumps(FullPlan(<<"bogus", "orders">>, EmptyColumns,
                      <<LlmJoin("shipments", "orders")>>, TRUE)),
   JsonDumps([tables |-> <<"shipments">>, columns |-> EmptyColumns])}

\* a provider call handed to execute_with_circuit_breaker
ProviderCall(name, tables, schema_desc, plan_json) ==
  [call |-> name, tables |-> tables, schema_desc |-> schema_desc, plan_json |-> plan_json]

NoPlanJson == [parsed |-> FALSE]

\* await of a provider call that goes on without the call having completed
AwaitedWithoutWaiting(pending, call) == pending

\* await execute_with_circuit_breaker(...): the caller goes on when the call is over
Awaited(pending, call) == pending \ {call}

\* the plan text handed to generate_sql_from_plan is the one the LLM wrote
PlanForRenderingAsGenerated(plan_json, validation_result) == plan_json

\* if validation_result.get("repaired_plan"): plan_json = json.dumps(...)
PlanForRendering(plan_json, validation_result) ==
  IF validation_result.repaired_plan # NonePlan
    THEN JsonDumps(validation_result.repaired_plan)
    ELSE plan_json

\* the loop's locals, untouched while generate_sql runs
LoopLocals ==
  <<g_pc, g_attempt, g_calls, g_sql, g_validation_result, g_current_tables, g_result,
    g_schema_context, g_relevant_tables, LoopConstants>>

\* the generate_plan call in flight
PlanCall ==
  ProviderCall("generate_plan",
               IF h_pc = "Replanning" THEN <<h_relevant_tables[1]>> ELSE h_relevant_tables,
               h_schema_desc, NoPlanJson)

\* the generate_sql_from_plan call in flight
RenderCall == ProviderCall("generate_sql_from_plan", <<>>, NoDescription, h_plan_json)

\* generate_sql has returned or raised: its locals are gone
HandlerReturns ==
  /\ h_pc' = "idle"
  /\ h_relevant_tables' = <<>>
  /\ h_schema_desc' = NoDescription
  /\ h_validation_result' = PlanInvalid("<not called>", <<>>)
  /\ h_plan_json' = NoPlanJson
  /\ h_sql' = NoSql

\* the loop calls generate_sql, which runs up to its first await: generate_plan
CallGenerateSql ==
  /\ LoopRunning
  /\ h_pc = "idle"
  /\ h_pc' = "GeneratingPlan"
  /\ h_relevant_tables' = g_current_tables
  /\ h_schema_desc' = g_schema_context
  /\ h_pending' = h_pending \cup
       {ProviderCall("generate_plan", g_current_tables, g_schema_context, NoPlanJson)}
  /\ UNCHANGED <<h_validation_result, h_plan_json, h_sql, LoopLocals>>

\* generate_plan returns a plan that validate_plan accepts: the repaired plan goes
\* to generate_sql_from_plan
PlanAccepted ==
  /\ h_pc \in {"GeneratingPlan", "Replanning"}
  /\ \E plan_json \in LlmPlanOutputs :
       \E validation_result \in ValidatePlan(plan_json, g_user_query, FALSE) :
          /\ validation_result.valid
          /\ h_validation_result' = validation_result
          /\ h_plan_json' = PlanForRendering(plan_json, validation_result)
          /\ h_pending' = Awaited(h_pending, PlanCall) \cup
               {ProviderCall("generate_sql_from_plan", <<>>, NoDescription,
                             PlanForRendering(plan_json, validation_result))}
  /\ h_pc' = "GeneratingSQL"
  /\ UNCHANGED <<h_relevant_tables, h_schema_desc, h_sql, LoopLocals>>

\* generate_plan returns a plan that validate_plan rejects and there is more than
\* one relevant table: plan again for the top table alone
PlanRejectedReplans ==
  /\ h_pc = "GeneratingPlan"
  /\ Len(h_relevant_tables) > 1
  /\ \E plan_json \in LlmPlanOutputs :
       \E validation_result \in ValidatePlan(plan_json, g_user_query, FALSE) :
          /\ ~validation_result.valid
          /\ h_validation_result' = validation_result
          /\ h_plan_json' = plan_json
  /\ h_pending' = Awaited(h_pending, PlanCall) \cup
       {ProviderCall("generate_plan", <<h_relevant_tables[1]>>, h_schema_desc, NoPlanJson)}
  /\ h_pc' = "Replanning"
  /\ UNCHANGED <<h_relevant_tables, h_schema_desc, h_sql, LoopLocals>>

\* the plan (of the second try, when there was one) is rejected: generate_sql
\* raises "Plan validation failed" and the loop's except branch counts the attempt
PlanRejectedRaises ==
  /\ \/ h_pc = "Replanning"
     \/ h_pc = "GeneratingPlan" /\ Len(h_relevant_tables) <= 1
  /\ \E plan_json \in LlmPlanOutputs :
       \E validation_result \in ValidatePlan(plan_json, g_user_query, FALSE) :
          ~validation_result.valid
  /\ h_pending' = Awaited(h_pending, PlanCall)
  /\ HandlerReturns
  /\ IterationRaises("plan validation failed")

\* a provider call raises or times out, or the circuit breaker refuses it
ProviderCallRaises ==
  /\ h_pc \in {"GeneratingPlan", "Replanning", "GeneratingSQL"}
  /\ h_pending' = Awaited(h_pending, IF h_pc = "GeneratingSQL" THEN RenderCall ELSE PlanCall)
  /\ HandlerReturns
  /\ \E e \in LlmErrors \ {"plan validation failed"} : IterationRaises(e)

\* generate_sql_from_plan returns the SQL and generate_sql returns it to the loop
SqlFromPlanReturns ==
  /\ h_pc = "GeneratingSQL"
  /\ h_sql' \in LlmSqlOutputs
  /\ h_pending' = Awaited(h_pending, RenderCall)
  /\ h_pc' = "ValidatingSQL"
  /\ UNCHANGED <<h_relevant_tables, h_schema_desc, h_validation_result, h_plan_json,
                 LoopLocals>>

\* the rest of the iteration on the returned SQL: a COUNT that was not asked for
SqlCountMismatch ==
  /\ h_pc = "ValidatingSQL"
  /\ IterationCountMismatch(h_sql)
  /\ HandlerReturns
  /\ UNCHANGED h_pending

\* the rest of the iteration on the returned SQL: valid, Success
SqlValidated ==
  /\ h_pc = "ValidatingSQL"
  /\ IterationSucceeds(h_sql)
  /\ HandlerReturns
  /\ UNCHANGED h_pending

\* the rest of the iteration on the returned SQL: invalid, refine
SqlRejected ==
  /\ h_pc = "ValidatingSQL"
  /\ IterationInvalid(h_sql)
  /\ HandlerReturns
  /\ UNCHANGED h_pending

NextPipeline ==
  \/ CallGenerateSql
  \/ PlanAccepted
  \/ PlanRejectedReplans
  \/ PlanRejectedRaises
  \/ ProviderCallRaises
  \/ SqlFromPlanReturns
  \/ SqlCountMismatch
  \/ SqlValidated
  \/ SqlRejected
  \/ ExitExhausted

SpecPipeline == Init /\ [][NextPipeline]_vars

(***************************************************************************)
(* SchemaCache and _build_optimized_schema_context                         *)
(***************************************************************************)
\* SchemaCache(max_size): the capacity, scaled down from the default 100
max_size == 2

MaxCacheCalls == 4

\* _get_cache_key: md5 of str(sorted(table_names) + [query_context]); the sorted
\* list of a duplicate-free list is its set of tables
GetCacheKey(table_names, query_context) ==
  [tables |-> Range(table_names), query |-> query_context]

\* schema_descriptions.get(key): the position of the key in the dict, 0 if absent
KeyPosition(cache, key) ==
  IF \E i \in 1..Len(cache) : cache[i].key = key
    THEN CHOOSE i \in 1..Len(cache) : cache[i].key = key
    ELSE 0

\* get_cached_schema_description
GetCachedSchemaDescription(cache, table_names, query_context) ==
  LET i == KeyPosition(cache, GetCacheKey(table_names, query_context))
  IN  IF i = 0 THEN NoContext ELSE cache[i].description

\* an eviction that picks the entry read longest ago
LeastRecentlyReadEntry(cache) ==
  CHOOSE i \in 1..Len(cache) : \A j \in 1..Len(cache) : cache[i].read <= cache[j].read

\* oldest_key = next(iter(self.schema_descriptions)): the first key of the dict
OldestEntry(cache) == 1

\* del self.schema_descriptions[oldest_key] when the cache is full
EvictIfFull(cache) ==
  IF Len(cache) >= max_size
    THEN LET k == OldestEntry(cache)
         IN  SubSeq(cache, 1, k - 1) \o SubSeq(cache, k + 1, Len(cache))
    ELSE cache

\* cache_schema_description: evict when full, then self.schema_descriptions[key] =
\* description (a key already present keeps its place in the dict); inserted and
\* read record when the key entered the dict and when it was last read
CacheSchemaDescription(cache, table_names, description, query_context, clock) ==
  LET key == GetCacheKey(table_names, query_context)
      kept == EvictIfFull(cache)
      i == KeyPosition(kept, key)
  IN  IF i = 0
        THEN Append(kept, [key |-> key, description |-> description,
                           inserted |-> clock, read |-> clock])
        ELSE [kept EXCEPT ![i].description = description]

\* the entry cache_schema_description deletes, NoEntry when the cache is not full
Evicted(cache) ==
  IF Len(cache) >= max_size THEN cache[OldestEntry(cache)] ELSE NoEntry

\* the scoping note _build_focused_schema_description puts first
ScopingHeader(ctx) ==
  IF ctx = "none" THEN "none"
  ELSE IF ScopingRequirements(ctx, "E100").scoping_required
    THEN "IMPORTANT: Use scoping column for entity-scoped tables"
  ELSE "NOTE: You have full access to all data. No scoping filters are required."

\* _build_focused_schema_description(tables, query_context, user_context); the
\* schema of the model has no code mappings
BuildFocusedSchemaDescriptionFor(tables, ctx) ==
  [header |-> ScopingHeader(ctx),
   tables |-> BuildFocusedSchemaDescription(tables).tables,
   relationships |-> BuildFocusedSchemaDescription(tables).relationships]

\* _identify_core_tables: the scoped relevant tables, then the others
IdentifyCoreTables(relevant_tables) ==
  SelectSeq(relevant_tables, LAMBDA t : t \in SchemaTables /\ TableInfo[t].scoped)
    \o SelectSeq(relevant_tables, LAMBDA t : t \in SchemaTables /\ ~TableInfo[t].scoped)

\* _analyze_query_context: requires_relationships
RequiresRelationships(query) == query = "shipments with orders"

\* the tables _build_optimized_schema_context describes and caches under
ExistingTables(relevant_tables, query) ==
  LET core_tables ==
        IdentifyCoreTables(relevant_tables)
          \o (IF RequiresRelationships(query)
                THEN GetRelationshipContext(relevant_tables) ELSE <<>>)
  IN  SelectSeq(Dedup(core_tables), LAMBDA t : t \in SchemaTables)

CacheTableInputs == {<<"shipments">>, <<"customers">>, <<"orders", "shipments">>}

CacheQueries == {"list shipments", "shipments with orders"}

CacheContexts == {"customer", "admin"}

InitCache ==
  /\ SqlIdle
  /\ PlanIdle
  /\ LoopIdle
  /\ GraphIdle
  /\ IndexIdle
  /\ BreakerIdle
  /\ LimiterIdle
  /\ CacheIdle

CacheFrame ==
  UNCHANGED <<sqlVars, planVars, loopVars, graphVars, indexVars, breakerVars, limiterVars>>

\* cache.get_cached_schema_description(table_names, query)
GetCachedCall ==
  /\ c_clock < MaxCacheCalls
  /\ \E tables \in CacheTableInputs, query \in CacheQueries :
       LET i == KeyPosition(c_cache, GetCacheKey(tables, query))
       IN  /\ c_cache' = IF i = 0 THEN c_cache
                         ELSE [c_cache EXCEPT ![i].read = c_clock + 1]
           /\ c_last' = [op |-> "get", tables |-> tables, query |-> query, ctx |-> "none",
                         returned |-> GetCachedSchemaDescription(c_cache, tables, query),
                         evicted |-> NoEntry]
  /\ c_clock' = c_clock + 1
  /\ CacheFrame

\* cache.cache_schema_description(table_names, description, query)
CacheCall ==
  /\ c_clock < MaxCacheCalls
  /\ \E tables \in CacheTableInputs, query \in CacheQueries, ctx \in CacheContexts :
       /\ c_cache' = CacheSchemaDescription(c_cache, tables,
                                            BuildFocusedSchemaDescriptionFor(tables, ctx),
                                            query, c_clock + 1)
       /\ c_last' = [op |-> "put", tables |-> tables, query |-> query, ctx |-> ctx,
                     returned |-> NoContext, evicted |-> Evicted(c_cache)]
  /\ c_clock' = c_clock + 1
  /\ CacheFrame

\* _build_optimized_schema_context(relevant_tables, query_context, user_context)
BuildOptimizedSchemaContextCall ==
  /\ c_clock < MaxCacheCalls
  /\ \E tables \in CacheTableInputs, query \in CacheQueries, ctx \in CacheContexts :
       LET i == KeyPosition(c_cache, GetCacheKey(tables, query))
           existing_tables == ExistingTables(tables, query)
           schema_desc == BuildFocusedSchemaDescriptionFor(existing_tables, ctx)
       IN  IF i # 0
             THEN /\ c_cache' = [c_cache EXCEPT ![i].read = c_clock + 1]
                  /\ c_last' = [op |-> "build", tables |-> tables, query |-> query,
                                ctx |-> ctx, returned |-> c_cache[i].description,
                                evicted |-> NoEntry]
             ELSE /\ c_cache' = CacheSchemaDescription(c_cache, existing_tables, schema_desc,
                                                      query, c_clock + 1)
                  /\ c_last' = [op |-> "build", tables |-> tables, query |-> query,
                                ctx |-> ctx, returned |-> schema_desc,
                                evicted |-> Evicted(c_cache)]
  /\ c_clock' = c_clock + 1
  /\ CacheFrame

NextCache ==
  \/ GetCachedCall
  \/ CacheCall
  \/ BuildOptimizedSchemaContextCall

SpecCache == InitCache /\ [][NextCache]_vars

\* requests served one after the other by the generator alone
NextContext == BuildOptimizedSchemaContextCall

SpecContext == InitCache /\ [][NextContext]_vars

(***************************************************************************)
(* RateLimiter (src/app/main.py)                                           *)
(***************************************************************************)
\* settings.RATE_LIMIT_PER_MINUTE, scaled down
max_requests == 2

\* the 60 seconds of the sliding window, scaled down
WindowSeconds == 2

\* time.time() is followed up to this value
MaxLimiterTime == 4

\* request.client.host of the callers
LimiterClients == {"10.0.0.1", "10.0.0.2"}

\* position of client_id in the requests dict, 0 when absent
ClientPosition(requests, client_id) ==
  IF \E i \in 1..Len(requests) : requests[i].client_id = client_id
  THEN CHOOSE i \in 1..Len(requests) : requests[i].client_id = client_id
  ELSE 0

\* if client_id not in self.requests: self.requests[client_id] = []
EnsureClient(requests, client_id) ==
  IF ClientPosition(requests, client_id) = 0
  THEN Append(requests, [client_id |-> client_id, times |-> <<>>])
  ELSE requests

\* [req_time for req_time in ... if now - req_time < 60]
RECURSIVE RecentRequests(_, _)
RecentRequests(times, now) ==
  IF times = <<>> THEN <<>>
  ELSE LET rest == RecentRequests(Tail(times), now)
       IN  IF now - Head(times) < WindowSeconds THEN <<Head(times)>> \o rest ELSE rest

AtLimitInclusive(times) == Len(times) > max_requests

\* len(self.requests[client_id]) >= self.max_requests
AtLimit(times) == Len(times) >= max_requests

\* is_allowed: the requests dict after the call and the value returned
IsAllowed(requests, client_id, now) ==
  LET ensured == EnsureClient(requests, client_id)
      pos == ClientPosition(ensured, client_id)
      recent == RecentRequests(ensured[pos].times, now)
      pruned == [ensured EXCEPT ![pos].times = recent]
  IN  IF AtLimit(recent)
      THEN [requests |-> pruned, allowed |-> FALSE]
      ELSE [requests |-> [pruned EXCEPT ![pos].times = Append(recent, now)],
            allowed |-> TRUE]

\* every request admitted so far, by client: what requests would hold if no
\* time were ever dropped from it
Admit(admitted, client_id, now) ==
  LET ensured == EnsureClient(admitted, client_id)
      pos == ClientPosition(ensured, client_id)
  IN  [ensured EXCEPT ![pos].times = Append(@, now)]

InitLimiter ==
  /\ SqlIdle
  /\ PlanIdle
  /\ LoopIdle
  /\ GraphIdle
  /\ IndexIdle
  /\ BreakerIdle
  /\ CacheIdle
  /\ LimiterIdle

LimiterFrame ==
  UNCHANGED <<sqlVars, planVars, loopVars, graphVars, indexVars, breakerVars, cacheVars>>

\* check_rate_limit calls rate_limiter.is_allowed(request.client.host)
IsAllowedCall ==
  \E client_id \in LimiterClients :
    LET out == IsAllowed(r_requests, client_id, r_now)
    IN  /\ r_requests' = out.requests
        /\ r_admitted' = IF out.allowed
                         THEN Admit(r_admitted, client_id, r_now)
                         ELSE r_admitted
        /\ r_last' = [client_id |-> client_id, allowed |-> out.allowed]
        /\ UNCHANGED r_now
        /\ LimiterFrame

\* time.time() advances between requests
LimiterTick ==
  /\ r_now < MaxLimiterTime
  /\ r_now' = r_now + 1
  /\ UNCHANGED <<r_requests, r_admitted, r_last>>
  /\ LimiterFrame

NextLimiter ==
  \/ IsAllowedCall
  \/ LimiterTick

SpecLimiter == InitLimiter /\ [][NextLimiter]_vars

(***************************************************************************)
(* Properties of validate_sql                                              *)
(***************************************************************************)
\* the SQL contains a predicate binding table t's own scoping column to the
\* scoping value: col = 'value', col = <placeholder>, or col IN (<entities>); a
\* literal counts when it starts with the value, as the validator's pattern reads it
BindsScoping(sql, t, val, ents) ==
  LET low == Lower(sql)
  IN  \E i \in 1..(Len(sql) - 2) :
        /\ low[i] = ScopingColumnOf(t)
        /\ \/ sql[i + 1] = "=" /\ sql[i + 2] \in ValuePrefixTokens(val) \cup {"?", "%s"}
           \/ Len(ents) > 1 /\ low[i + 1] = "in" /\ sql[i + 2] = InListToken(ents)

ScopingRequired == ScopingRequirements(v_ctx, v_scoping_value).scoping_required

AccessibleEntities == ScopingRequirements(v_ctx, v_scoping_value).accessible_entities

\* C2: whenever scoping is required and validate_sql returns valid, the returned
\* SQL binds the scoping column of EVERY scoped table it uses to the scoping value.
C2_EveryScopedTableBound ==
  (v_phase # "input" /\ ScopingRequired /\ v_result.valid) =>
     \A t \in v_result.tables \cap ScopedTables :
        BindsScoping(v_result.modified_sql, t, v_scoping_value, AccessibleEntities)

\* a single SELECT statement without WHERE that reads at least one scoped table
UnscopedReads ==
  {sel \o frm \o tl \o nd :
     sel \in SelectParts,
     frm \in {f \in FromParts : ExtractTables(f) \cap ScopedTables # {}},
     tl \in TailParts, nd \in {<<>>, <<";">>}}

ExampleSql == <<"SELECT", "COUNT(*)", "FROM", "shipments">>

ExampleRepaired ==
  <<"SELECT", "COUNT(*)", "FROM", "shipments", "WHERE", "accounts_entity_id", "=",
    "'E100'", ";">>

\* C3: with auto-scoping enabled, SQL that reads a scoped table without a scoping
\* predicate is returned valid and repaired (the example to the documented text),
\* and validating the repaired SQL again returns valid with the SQL unchanged.
\* Stated for the runs in which the optional AST tier is skipped, where the
\* repair is reached.
C3_AutoScopingRepairIdempotent ==
  (v_auto /\ ~v_ast /\ ScopingRequired /\ v_sql \in UnscopedReads) =>
     /\ v_phase # "input" =>
          /\ v_result.valid
          /\ \A t \in v_result.tables \cap ScopedTables :
               BindsScoping(v_result.modified_sql, t, v_scoping_value, AccessibleEntities)
          /\ (v_sql = ExampleSql /\ v_scoping_value = "E100" /\ v_ctx # "multi")
               => v_result.modified_sql = ExampleRepaired
     /\ v_phase = "revalidated" =>
          /\ v_result2.valid
          /\ v_result2.modified_sql = v_result.modified_sql

\* a semicolon followed by further statement content
HasFurtherStatement(sql) ==
  \E i \in 1..(Len(sql) - 1) : sql[i] = ";" /\ sql[i + 1] \in LetterTokens

\* C4: SQL in which a semicolon is followed by further statement content is
\* rejected, whatever the auto-scoping setting: validate_sql never returns valid
\* for it (and so never returns SQL repaired from the first statement alone).
C4_MultiStatementRejected ==
  (v_phase # "input" /\ HasFurtherStatement(v_sql)) => ~v_result.valid

\* C5: SQL in which DROP, DELETE, TRUNCATE, ALTER, CREATE, INSERT or UPDATE occurs
\* as a whole word anywhere is never returned valid, for every role and setting.
C5_DangerousKeywordNeverValid ==
  (v_phase # "input" /\ \E i \in 1..Len(v_sql) : UpperMap[v_sql[i]] \in DangerousKeywords) =>
     ~v_result.valid

(***************************************************************************)
(* Properties of validate_plan                                             *)
(***************************************************************************)
PlanParsed == p_phase = "validated" /\ p_raw.parsed

LackedFields == Range(required_fields) \ DOMAIN p_raw.plan

\* C8: a parsed plan that lacks one or more of the 8 required fields is invalid,
\* its repaired_plan is None, and the error lists exactly the lacking field names:
\* each of them once, and no field the plan has.
C8_MissingFieldsListedExactly ==
  (PlanParsed /\ LackedFields # {}) =>
     /\ ~p_result.valid
     /\ p_result.repaired_plan = NonePlan
     /\ p_result.error = "missing required fields"
     /\ Range(p_result.missing_fields) = LackedFields
     /\ Len(p_result.missing_fields) = Cardinality(LackedFields)

C8_Witness ==
  /\ PlanParsed
  /\ LackedFields = {"columns", "needs_scoping"}
  /\ p_result.missing_fields = <<"columns", "needs_scoping">>
  /\ p_result.repaired_plan = NonePlan

HasAllFields == PlanParsed /\ LackedFields = {}

\* C9: for a plan whose tables name a table the schema does not know, the tables
\* of the repaired plan are, as a set, the plan's own tables that the schema knows
\* (nothing is added from the joins), and the plan is invalid when there are none.
C9_UnknownTablesOnlyRemoved ==
  (HasAllFields /\ ~(Range(p_raw.plan.tables) \subseteq SchemaTables)) =>
     IF Range(p_raw.plan.tables) \cap SchemaTables = {}
       THEN ~p_result.valid
       ELSE /\ p_result.valid
            /\ Range(p_result.repaired_plan.tables)
                 = Range(p_raw.plan.tables) \cap SchemaTables

\* C10: for a query with count intent and an otherwise valid plan, the repaired
\* plan has no columns, no group_by and no limit, whatever list or time keywords the
\* query also has, in both PlanValidator implementations.
C10_CountIntentClearsProjection ==
  (HasAllFields /\ p_result.valid /\ QueryWords(p_user_query) \cap CountWords # {}) =>
     /\ DOMAIN p_result.repaired_plan.columns = {}
     /\ p_result.repaired_plan.group_by = <<>>
     /\ p_result.repaired_plan.limit = NullLimit

(***************************************************************************)
(* Properties of _generate_with_validation_loop                            *)
(***************************************************************************)
LoopDone == g_pc = "done"

\* C1: whatever the LLM returns or raises and whatever the validations say, the
\* loop starts at most MAX_VALIDATION_ATTEMPTS generation attempts, every iteration
\* either returns or counts an attempt, the loop does return, and a return that
\* follows no valid validation is a failure result, given only once all attempts
\* are used.
C1_LoopReturnsWithinAttemptBound ==
  /\ [](g_calls <= MAX_VALIDATION_ATTEMPTS /\ g_attempt <= MAX_VALIDATION_ATTEMPTS)
  /\ [][g_pc = "loop" => (g_pc' = "done" \/ g_attempt' > g_attempt)]_vars
  /\ [](LoopDone => /\ g_result.success => g_validation_result.valid
                    /\ ~g_result.success => g_calls = MAX_VALIDATION_ATTEMPTS)
  /\ <>LoopDone

C1_Witness ==
  /\ LoopDone
  /\ ~g_result.success
  /\ g_calls = MAX_VALIDATION_ATTEMPTS
  /\ g_sql = <<"DROP", "TABLE", "shipments">>
  /\ g_validation_result.error = "operation not allowed"

\* C6: a terminal failure returns the SQL of the most recent attempt that produced
\* SQL (the loop's local sql, empty only when no attempt produced any) and an error
\* that carries the most recent validation error, also when the last attempt
\* ended with an exception of the LLM.
C6_FailureKeepsLastSqlAndError ==
  (LoopDone /\ ~g_result.success) =>
     /\ g_result.sql = IF g_sql = NoSql THEN <<>> ELSE g_sql
     /\ g_validation_result # NoResult =>
          g_validation_result.error \in Range(g_result.error)

\* C7: on every return the reported attempts is the number of generate_sql calls
\* started and lies in 1..MAX_VALIDATION_ATTEMPTS; a Success reports the validator's
\* final SQL and tables.
C7_AttemptsCountsGenerationCalls ==
  LoopDone =>
     /\ g_result.attempts = g_calls
     /\ g_result.attempts \in 1..MAX_VALIDATION_ATTEMPTS
     /\ g_result.success =>
          /\ g_validation_result.valid
          /\ g_result.sql = g_validation_result.modified_sql
          /\ g_result.tables_used = g_validation_result.tables

C7_Witness ==
  /\ LoopDone
  /\ g_result.success
  /\ g_result.attempts = 2
  /\ g_calls = 2
  /\ g_result.sql # g_sql

(***************************************************************************)
(* Properties of the joins                                                 *)
(***************************************************************************)
\* a declared relationship from -> to with these columns
Declared(from, to, on, to_column) ==
  \E i \in 1..Len(Relationships) :
    /\ Relationships[i].from = from
    /\ Relationships[i].to = to
    /\ Relationships[i].on = on
    /\ Relationships[i].to_column = to_column

\* C11: every join step emitted by get_join_path and every join kept in a plan
\* repaired by validate_plan is a declared relationship from_table -> to_table in
\* that direction with the schema-declared columns (not the columns the LLM
\* proposed), and every kept plan join connects two tables of the repaired table set.
C11_JoinsAreDeclaredRelationships ==
  /\ (j_phase = "returned") =>
        \A i \in 1..Len(j_result.joins) :
          LET j == j_result.joins[i]
          IN  Declared(j.from_table, j.to_table, j.join_column, j.to_column)
  /\ (p_phase = "validated" /\ p_result.valid) =>
        \A i \in 1..Len(p_result.repaired_plan.joins) :
          LET j == p_result.repaired_plan.joins[i]
          IN  /\ Declared(j.from_table, j.to_table, j.from_column, j.to_column)
              /\ {j.from_table, j.to_table} \subseteq Range(p_result.repaired_plan.tables)

\* a plan whose LLM join named other columns was repaired and kept the join
C11_Witness ==
  /\ p_phase = "validated"
  /\ p_result.valid
  /\ p_raw.plan.tables = <<"shipments", "orders">>
  /\ p_raw.plan.joins = <<LlmJoin("shipments", "orders")>>
  /\ Len(p_result.repaired_plan.joins) = 1
  /\ p_result.repaired_plan.joins[1].from_column = "order_id"

\* C12: for two tables connected by a declared relationship a.c -> b.d,
\* get_join_path returns exactly the one join step a.c -> b.d, whichever of the
\* two tables is listed first.
C12_TwoTablesOneJoinEitherOrder ==
  (j_phase = "returned" /\ Len(j_tables) = 2) =>
    \A i \in 1..Len(Relationships) :
      LET r == Relationships[i]
      IN  Range(j_tables) = {r.from, r.to} =>
            /\ ~j_result.exc
            /\ j_result.joins = <<[from_table |-> r.from, to_table |-> r.to,
                                   join_column |-> r.on, to_column |-> r.to_column]>>

(***************************************************************************)
(* Properties of the retrieval index                                       *)
(***************************************************************************)
\* position of a table in the schema's enumeration order
SchemaPosition(t) == CHOOSE i \in 1..Len(TableOrder) : TableOrder[i] = t

\* C13: search_tables is deterministic (identical query, top_k and min_score on
\* the same schema give the identical ordered list, whatever calls came between),
\* every returned table scores at least min_score, at most top_k tables are
\* returned, and they are in descending score order with ties in schema
\* enumeration order.
C13_SearchTablesDeterministicRanking ==
  /\ \A i, j \in 1..Len(s_history) :
        (/\ s_history[i].query = s_history[j].query
         /\ s_history[i].top_k = s_history[j].top_k
         /\ s_history[i].min_score = s_history[j].min_score)
          => s_history[i].result = s_history[j].result
  /\ \A i \in 1..Len(s_history) :
        LET call == s_history[i]
            r == call.result
        IN  /\ Len(r) <= call.top_k
            /\ \A n \in 1..Len(r) : r[n].score >= call.min_score
            /\ \A n \in 1..(Len(r) - 1) :
                  \/ r[n].score > r[n + 1].score
                  \/ /\ r[n].score = r[n + 1].score
                     /\ SchemaPosition(r[n].table) < SchemaPosition(r[n + 1].table)

\* the same query was searched before and after another query, left out tables
\* below min_score and ranked two tables of equal score
C13_Witness ==
  /\ Len(s_history) = 3
  /\ s_history[1].query = <<"orders">>
  /\ s_history[2].query = <<"SHIPMENTS">>
  /\ s_history[3] = s_history[1]
  /\ s_history[1].top_k = 10
  /\ Len(s_history[1].result) < Len(TableOrder)
  /\ \E n \in 1..(Len(s_history[1].result) - 1) :
        s_history[1].result[n].score = s_history[1].result[n + 1].score

(***************************************************************************)
(* Properties of the circuit breaker                                       *)
(***************************************************************************)
\* the failures recorded since the most recent recorded success or reset
RECURSIVE FailuresSinceSuccess(_)
FailuresSinceSuccess(log) ==
  IF Len(log) = 0 \/ log[Len(log)] # "failure" THEN 0
  ELSE 1 + FailuresSinceSuccess(SubSeq(log, 1, Len(log) - 1))

\* C17: whatever the interleaving of the requests, failure_count equals the
\* number of failures recorded since the most recent recorded success or reset,
\* and the breaker is OPEN or HALF_OPEN exactly when that number has reached
\* failure_threshold.
C17_NoLostUpdate ==
  /\ b_cb.failure_count = FailuresSinceSuccess(b_log)
  /\ (b_cb.state \in {"OPEN", "HALF_OPEN"})
       <=> (FailuresSinceSuccess(b_log) >= failure_threshold)

\* two requests were in flight together, both failed, and a third failure
\* opened the breaker
C17_Witness ==
  /\ b_log = <<"failure", "failure", "failure">>
  /\ b_req[1].pc = "raised"
  /\ b_req[2].pc = "raised"
  /\ b_cb.state = "OPEN"
  /\ b_cb.failure_count = 3

\* the log without the successes recorded after its last failure or reset
RECURSIVE UpToLastFailure(_)
UpToLastFailure(log) ==
  IF Len(log) = 0 \/ log[Len(log)] # "success" THEN log
  ELSE UpToLastFailure(SubSeq(log, 1, Len(log) - 1))

\* failure_threshold failures in a row, no success between them, are the most
\* recent failures recorded (and no reset followed)
Tripped == FailuresSinceSuccess(UpToLastFailure(b_log)) >= failure_threshold

\* less than recovery_timeout has elapsed since the last failure
WithinRecoveryTimeout ==
  /\ b_cb.last_failure_time # NoTime
  /\ b_now - b_cb.last_failure_time < recovery_timeout

\* request r makes a call in this step
Calls(r) == BeginCall(r)

\* C14: after failure_threshold consecutive failed calls the breaker is OPEN, and
\* every call made before recovery_timeout has elapsed since the last failure
\* fails fast without invoking the operation; a recorded success resets the count
\* to 0, so the breaker is only OPEN after failure_threshold failures in a row.
C14_TrippedBreakerFailsFast ==
  /\ [][(b_log' # b_log /\ FailuresSinceSuccess(b_log') >= failure_threshold)
          => b_cb'.state = "OPEN"]_vars
  /\ [][\A r \in Requests :
          (Tripped /\ WithinRecoveryTimeout /\ Calls(r)) => b_req'[r].pc = "rejected"]_vars
  /\ [][(b_log' # b_log /\ b_log'[Len(b_log')] = "success")
          => b_cb'.failure_count = 0]_vars
  /\ [](b_cb.state = "OPEN" => FailuresSinceSuccess(b_log) >= failure_threshold)

\* C18: once recovery_timeout has elapsed since the last failure the next call
\* on an OPEN breaker is admitted as the probe and the breaker becomes HALF_OPEN;
\* when the probe returns the breaker is CLOSED with failure_count 0, when the
\* probe raises the breaker is OPEN again, and an OPEN breaker fails fast until
\* recovery_timeout has elapsed since that failure.
C18_ProbeDecidesRecovery ==
  /\ [][\A r \in Requests :
          (b_cb.state = "OPEN" /\ ~WithinRecoveryTimeout /\ Calls(r))
            => (b_req'[r] = [pc |-> "inflight", probe |-> TRUE]
                  /\ b_cb'.state = "HALF_OPEN")]_vars
  /\ [][\A r \in Requests :
          (b_req[r] = [pc |-> "inflight", probe |-> TRUE] /\ b_req'[r].pc = "returned")
            => (b_cb'.state = "CLOSED" /\ b_cb'.failure_count = 0)]_vars
  /\ [][\A r \in Requests :
          (/\ b_req[r] = [pc |-> "inflight", probe |-> TRUE]
           /\ b_req'[r].pc = "raised"
           /\ "reset" \notin Range(b_log))
            => b_cb'.state = "OPEN"]_vars
  /\ [][\A r \in Requests :
          (b_cb.state = "OPEN" /\ WithinRecoveryTimeout /\ Calls(r))
            => b_req'[r].pc = "rejected"]_vars

(***************************************************************************)
(* Properties of the validation loop: repair, refinement, pipeline order   *)
(***************************************************************************)
\* validate_sql accepted sql only after appending the scoping filter it missed
ScopingSynthesized(sql) ==
  \E rev \in ListOrders(sql) :
     LET r == ValidateSql(sql, v_scoping_value, v_ctx, v_auto, v_ast, rev)
     IN  r.valid /\ r.scoping_applied /\ r.modified_sql # sql

\* C16: an attempt whose SQL the validator repaired by synthesizing the missing
\* scoping filter is not rejected for a missing scoping filter: the loop neither
\* counts the attempt as failed nor refines the context because of it, with or
\* without a user context that requires scoping; and when it returns Success the
\* SQL is the repaired one and the table list is the one the attempt ran with.
C16_SynthesizedScopingAcceptedLocally ==
  /\ [][(AttemptInvalid /\ ScopingSynthesized(g_sql'))
          => g_validation_result'.error \notin ScopingErrors]_vars
  /\ [][(AttemptSucceeds /\ ScopingSynthesized(g_sql'))
          => /\ g_result'.sql # g_sql'
             /\ SCOPING_COLUMN \in Range(g_result'.sql)
             /\ g_attempt' = g_attempt
             /\ g_current_tables' = g_current_tables]_vars

\* the core scoped tables of the schema that a table list lacks
MissingCoreScoped(tables) ==
  {t \in Range(core_scoped_tables) \cap SchemaTables :
     TableInfo[t].scoped /\ t \notin Range(tables)}

\* the tables a declared relationship links to one of the given tables
AdjacentTables(T) ==
  {r.to : r \in {q \in Range(Relationships) : q.from \in T}}
    \cup {r.from : r \in {q \in Range(Relationships) : q.to \in T}}

\* C20: an iteration that ends with a failed SQL validation (a rejected SQL or a
\* COUNT that was not asked for) and is not the last refines the context by the
\* class of the error: a 'scoping' error adds the missing core scoped tables, a
\* 'join'/'relationship' error adds the tables adjacent by a declared
\* relationship, any other error adds nothing; the old tables stay, in place; the
\* schema description is rebuilt for exactly the resulting tables; and the last
\* attempt, an exception and a Success refine nothing.
C20_RefinementByErrorClass ==
  /\ [][(AttemptInvalid \/ AttemptCountMismatch) =>
          LET err == g_validation_result'.error
              before == g_current_tables
              after == g_current_tables'
              scoped == IF err \in ScopingErrors THEN MissingCoreScoped(before) ELSE {}
              joined == IF err \in JoinErrors
                          THEN AdjacentTables(Range(before) \cup scoped) ELSE {}
          IN  IF g_attempt' < MAX_VALIDATION_ATTEMPTS
                THEN /\ SubSeq(after, 1, Len(before)) = before
                     /\ Range(after) = Range(before) \cup scoped \cup joined
                     /\ Cardinality(Range(after)) = Len(after)
                     /\ g_schema_context'.tables = after
                     /\ Range(g_schema_context'.relationships) =
                          {r \in Range(Relationships) :
                             r.from \in Range(after) \/ r.to \in Range(after)}
                ELSE after = before /\ g_schema_context' = g_schema_context]_vars
  /\ [][(GenerateSqlRaises \/ AttemptSucceeds \/ ExitExhausted) =>
          UNCHANGED <<g_current_tables, g_schema_context>>]_vars

\* both classes have refined [customers]: a database error that mentions a join
\* added orders, then a missing scoping filter added shipments
C20_Witness ==
  /\ g_attempt = 2
  /\ g_current_tables = <<"customers", "orders", "shipments">>
  /\ g_validation_result.error = "scoping filter missing"
  /\ g_schema_context.tables = g_current_tables

\* the order of the states of one attempt: GeneratingPlan, ValidatingPlan (within
\* the step that takes the plan), GeneratingSQL, ValidatingSQL, and back to the
\* loop from any of them
PipelineOrder ==
  {<<"idle", "GeneratingPlan">>, <<"GeneratingPlan", "Replanning">>,
   <<"GeneratingPlan", "GeneratingSQL">>, <<"Replanning", "GeneratingSQL">>,
   <<"GeneratingSQL", "ValidatingSQL">>,
   <<"GeneratingPlan", "idle">>, <<"Replanning", "idle">>, <<"GeneratingSQL", "idle">>,
   <<"ValidatingSQL", "idle">>}

AcceptedPlans ==
  {r \in UNION {ValidatePlan(plan_json, g_user_query, FALSE) : plan_json \in LlmPlanOutputs} :
     r.valid}

\* C15: in every attempt the states come in pipeline order; generate_sql_from_plan
\* is called only with the repaired plan of a validate_plan result that accepted
\* the plan; the loop returns Success only from the validation of the SQL that
\* this attempt's generate_sql returned, that validation being valid, and the SQL
\* of a Success is the validator's (possibly repaired) SQL.
C15_PipelineOrder ==
  /\ [][h_pc' # h_pc => <<h_pc, h_pc'>> \in PipelineOrder]_vars
  /\ [](h_pc \in {"GeneratingSQL", "ValidatingSQL"} =>
          /\ h_validation_result \in AcceptedPlans
          /\ h_plan_json = JsonDumps(h_validation_result.repaired_plan))
  /\ [](h_pc = "GeneratingSQL" => h_pending = {RenderCall})
  /\ [][(g_result'.success /\ g_pc = "loop") =>
          /\ h_pc = "ValidatingSQL"
          /\ g_sql' = AttemptSql(h_sql)
          /\ g_validation_result'.valid
          /\ g_validation_result' \in
               LoopValidations(g_sql', v_scoping_value, v_ctx, g_current_tables,
                               v_auto, v_ast, g_db_feedback)
          /\ g_result'.sql = g_validation_result'.modified_sql]_vars
  /\ [](g_result.success => g_pc = "done" /\ g_validation_result.valid)

\* the second attempt renders SQL from a plan whose unknown table validate_plan
\* removed, and the SQL is about to be validated
C15_Witness ==
  /\ h_pc = "ValidatingSQL"
  /\ g_attempt = 1
  /\ h_plan_json.plan.tables = <<"orders">>
  /\ h_sql = <<"SELECT", "*", "FROM", "orders", "WHERE", "accounts_entity_id", "=", "'E100'">>

\* C19: within one request at most one provider call is in flight; an attempt is
\* open only when every earlier attempt has ended with its outcome counted; the
\* attempt counter moves only when no call is in flight; a failed validation
\* that is not the last refines the context in the step that ends the attempt;
\* and the plan call that opens an attempt carries the loop's current (refined)
\* tables and schema description.
C19_RetriesSequential ==
  /\ [](Cardinality(h_pending) <= 1)
  /\ [](h_pending # {} <=> h_pc \in {"GeneratingPlan", "Replanning", "GeneratingSQL"})
  /\ [](h_pc # "idle" =>
          g_pc = "loop" /\ g_calls = g_attempt /\ g_attempt < MAX_VALIDATION_ATTEMPTS)
  /\ [][g_attempt' # g_attempt =>
          h_pending' = {} /\ h_pc' = "idle" /\ g_attempt' = g_attempt + 1]_vars
  /\ [][(h_pc = "ValidatingSQL" /\ g_attempt' # g_attempt
           /\ g_attempt' < MAX_VALIDATION_ATTEMPTS) =>
          /\ g_current_tables' =
               RefineSchemaContext(g_validation_result'.error, g_current_tables)
          /\ g_schema_context' = BuildFocusedSchemaDescription(g_current_tables')]_vars
  /\ [][(h_pc = "idle" /\ h_pc' # "idle") =>
          /\ h_pending = {}
          /\ h_pending' = {ProviderCall("generate_plan", g_current_tables,
                                        g_schema_context, NoPlanJson)}
          /\ UNCHANGED <<g_current_tables, g_schema_context>>]_vars

\* the second attempt's plan call is in flight, with the tables the first
\* attempt's error added
C19_Witness ==
  /\ h_pc = "GeneratingPlan"
  /\ g_attempt = 1
  /\ g_validation_result.error = "database error near join"
  /\ h_pending = {ProviderCall("generate_plan", <<"customers", "orders">>,
                               BuildFocusedSchemaDescription(<<"customers", "orders">>),
                               NoPlanJson)}

\* C21: when an attempt fails for an intent mismatch (the LLM returned a COUNT for
\* a query without count intent) and another attempt follows, the table list the
\* loop keeps for the next generate_sql call, and with it the next plan call, is
\* strictly narrower than the list of the failed attempt.
C21_IntentMismatchNarrowsTables ==
  [][(/\ h_pc = "ValidatingSQL"
      /\ g_attempt' # g_attempt
      /\ g_attempt' < MAX_VALIDATION_ATTEMPTS
      /\ g_validation_result'.error = "llm returned count but details were requested")
       => /\ Range(g_current_tables') \subseteq Range(g_current_tables)
          /\ Range(g_current_tables') # Range(g_current_tables)]_vars

\* a provider call of the open generate_sql call ends with an exception
CallFails ==
  h_pc \in {"GeneratingPlan", "Replanning", "GeneratingSQL"} /\ h_pc' = "idle"

\* C22: an exception or timeout of an LLM call is counted as exactly one failed
\* attempt and leaves the table list and the schema context as they were; before
\* the bound is reached the loop goes on to the next attempt without a result,
\* and at the bound the request ends with a failure result that carries the
\* attempt count and the error.
C22_LlmFailureIsRetryable ==
  [][CallFails =>
       /\ g_attempt' = g_attempt + 1
       /\ g_calls' = g_calls + 1
       /\ UNCHANGED <<g_current_tables, g_schema_context, g_sql, g_validation_result>>
       /\ IF g_attempt' < MAX_VALIDATION_ATTEMPTS
            THEN /\ g_pc' = "loop"
                 /\ g_result' = NoLoopResult
            ELSE /\ g_pc' = "done"
                 /\ ~g_result'.success
                 /\ g_result'.attempts = MAX_VALIDATION_ATTEMPTS
                 /\ g_result'.tables_used = g_current_tables
                 /\ g_result'.error[1] = "SQL generation failed:"
                 /\ g_result'.error[2] \in LlmErrors]_vars

\* two LLM calls have failed and the third attempt's plan call is in flight with
\* the tables the request started with
C22_Witness ==
  /\ g_attempt = 2
  /\ g_calls = 2
  /\ g_sql = NoSql
  /\ h_pc = "GeneratingPlan"
  /\ g_current_tables = <<"shipments", "orders">>
  /\ h_relevant_tables = g_current_tables

(***************************************************************************)
(* Properties of the schema cache                                          *)
(***************************************************************************)
\* the last call wrote the cache: a cache call, or a build that missed
CacheWritten ==
  \/ c_last'.op = "put"
  \/ /\ c_last'.op = "build"
     /\ KeyPosition(c_cache, GetCacheKey(c_last'.tables, c_last'.query)) = 0

\* C23: after any sequence of cache and get calls the cache holds at most
\* max_size descriptions under distinct keys, kept in the order their keys
\* entered; a write that finds the cache full evicts exactly the entry whose key
\* entered first, whatever was read since, and keeps every other one; a read
\* changes neither the entries nor their order.
C23_CacheBoundedFifo ==
  /\ [](Len(c_cache) <= max_size)
  /\ [](\A i, j \in 1..Len(c_cache) :
          i < j => /\ c_cache[i].key # c_cache[j].key
                   /\ c_cache[i].inserted < c_cache[j].inserted)
  /\ [][(CacheWritten /\ Len(c_cache) >= max_size) =>
          \A i \in 1..Len(c_cache) :
             LET first == \A j \in 1..Len(c_cache) : c_cache[i].inserted <= c_cache[j].inserted
                 kept == \E k \in 1..Len(c_cache') :
                            /\ c_cache'[k].key = c_cache[i].key
                            /\ c_cache'[k].inserted = c_cache[i].inserted
             IN  first <=> ~kept]_vars
  /\ [][c_last'.op = "get" =>
          /\ Len(c_cache') = Len(c_cache)
          /\ \A i \in 1..Len(c_cache) :
               /\ c_cache'[i].key = c_cache[i].key
               /\ c_cache'[i].description = c_cache[i].description]_vars

\* a full cache has just evicted the entry that had been read after every entry
\* it kept had been written or read, and that entry is gone
C23_Witness ==
  /\ c_last.op = "put"
  /\ c_last.evicted # NoEntry
  /\ Len(c_cache) = max_size
  /\ KeyPosition(c_cache, c_last.evicted.key) = 0
  /\ c_last.evicted.read > c_last.evicted.inserted
  /\ c_last.evicted.read > c_cache[1].read

\* C25: the schema context a request gets depends on its own tables, query and
\* user context only: the scoping note of the description returned is the one
\* of the requesting user's role, whatever earlier requests have cached.
C25_ContextMatchesRequestRole ==
  c_last.op = "build" =>
    /\ c_last.returned.header = ScopingHeader(c_last.ctx)
    /\ c_last.returned =
         BuildFocusedSchemaDescriptionFor(ExistingTables(c_last.tables, c_last.query),
                                          c_last.ctx)

\* the times recorded for client_id, none when the client is unknown
RecordedTimes(requests, client_id) ==
  IF ClientPosition(requests, client_id) = 0 THEN <<>>
  ELSE requests[ClientPosition(requests, client_id)].times

\* the requests of client_id admitted at a time in [from, from + WindowSeconds)
AdmittedInWindow(client_id, from) ==
  LET times == RecordedTimes(r_admitted, client_id)
  IN  {i \in 1..Len(times) : from <= times[i] /\ times[i] < from + WindowSeconds}

\* C24: for every client and every window of WindowSeconds, at most
\* max_requests of the client's requests were admitted in the window; a denied
\* request records no time (the client's list can only lose expired times); and
\* a call for one client leaves the times recorded for every other client as
\* they were, so that other clients never count against it.
C24_RateLimitPerClientWindow ==
  /\ [](\A client_id \in LimiterClients : \A from \in 0..MaxLimiterTime :
          Cardinality(AdmittedInWindow(client_id, from)) <= max_requests)
  /\ [][(r_now' = r_now /\ ~r_last'.allowed) =>
          /\ r_admitted' = r_admitted
          /\ RecordedTimes(r_requests', r_last'.client_id)
               = RecentRequests(RecordedTimes(r_requests, r_last'.client_id), r_now)]_vars
  /\ [][r_now' = r_now =>
          /\ \A other \in LimiterClients \ {r_last'.client_id} :
               RecordedTimes(r_requests', other) = RecordedTimes(r_requests, other)
          /\ r_last'.allowed <=>
               Len(RecentRequests(RecordedTimes(r_requests, r_last'.client_id), r_now))
                 < max_requests]_vars

\* a client is denied at its limit while another client holds recorded
\* requests, after an earlier window of the denied client has already expired
C24_Witness ==
  /\ ~r_last.allowed
  /\ r_last.client_id = "10.0.0.1"
  /\ Len(RecordedTimes(r_requests, "10.0.0.1")) = max_requests
  /\ Len(RecordedTimes(r_requests, "10.0.0.2")) > 0
  /\ Len(RecordedTimes(r_admitted, "10.0.0.1")) > max_requests

\* the breaker is reset in this step
ResetRecorded == b_log' # b_log /\ b_log'[Len(b_log')] = "reset"

\* the call admitted as the probe returns in this step
ProbeReturns ==
  \E r \in Requests :
    /\ b_req[r] = [pc |-> "inflight", probe |-> TRUE]
    /\ b_req'[r].pc = "returned"

\* C26: an OPEN breaker becomes CLOSED only through an explicit reset or,
\* passing through HALF_OPEN, through the return of the probe admitted after
\* recovery_timeout; the return of a call admitted before the breaker opened
\* does not close it.
C26_OpenClosesOnlyByProbeOrReset ==
  /\ [][(b_cb.state = "OPEN" /\ b_cb'.state = "CLOSED") => ResetRecorded]_vars
  /\ [][(b_cb.state = "HALF_OPEN" /\ b_cb'.state = "CLOSED")
          => (ResetRecorded \/ ProbeReturns)]_vars
  /\ [][\A r \in Requests :
          (/\ b_cb.state = "OPEN"
           /\ b_req[r] = [pc |-> "inflight", probe |-> FALSE]
           /\ b_req'[r].pc = "returned")
            => b_cb'.state = "OPEN"]_vars

\* C27: a CLOSED breaker has counted fewer than failure_threshold failures; an
\* OPEN or HALF_OPEN breaker has counted at least failure_threshold and holds
\* the time of its last failure; the state is one of the three.
C27_StateMatchesCount ==
  /\ b_cb.state \in {"CLOSED", "OPEN", "HALF_OPEN"}
  /\ b_cb.state = "CLOSED" => b_cb.failure_count < failure_threshold
  /\ b_cb.state \in {"OPEN", "HALF_OPEN"} =>
       /\ b_cb.failure_count >= failure_threshold
       /\ b_cb.last_failure_time # NoTime

\* a breaker that was reset, tripped again and now admits its probe
C27_Witness ==
  /\ b_cb.state = "HALF_OPEN"
  /\ b_cb.failure_count >= failure_threshold
  /\ b_cb.last_failure_time # NoTime
  /\ "reset" \in Range(b_log)

\* C28: get_state leaves state, failure_count and last_failure_time as they
\* were, in every state of the breaker.
C28_GetStateReadsOnly ==
  [][GetState => b_cb' = b_cb]_vars

\* C29: the caller's relevant_tables list is never changed by the loop, every
\* table of the working list is still in it after each iteration, and the
\* working list holds no table twice.
C29_WorkingTablesOnlyGrow ==
  /\ [][g_relevant_tables' = g_relevant_tables]_vars
  /\ [][Range(g_current_tables) \subseteq Range(g_current_tables')]_vars
  /\ [](\A i, j \in 1..Len(g_current_tables) :
          g_current_tables[i] = g_current_tables[j] => i = j)
  /\ [](Range(g_relevant_tables) \subseteq Range(g_current_tables))

\* by the second attempt a refinement has added tables to the working list, and
\* the caller's list still holds the one table it was passed with
C29_Witness ==
  /\ g_attempt = 2
  /\ g_relevant_tables = <<"customers">>
  /\ Len(g_current_tables) >= 3

\* C30: the join steps get_join_path returns hold no relationship
\* (from_table, to_table) twice, whatever the list of tables.
C30_JoinStepsDistinct ==
  j_phase = "returned" =>
    \A i, j \in 1..Len(j_result.joins) :
       (/\ j_result.joins[i].from_table = j_result.joins[j].from_table
        /\ j_result.joins[i].to_table = j_result.joins[j].to_table) => i = j

====
